---- MODULE Spec2Model ----
(***************************************************************************)
(* Model of the K-SEC Copilot review workflow.                             *)
(*                                                                         *)
(*   src/app.py                 the expert-mode Review Session             *)
(*                              (review_index, yaml_history, the accept /  *)
(*                              reject / back buttons, the final summary)  *)
(*   src/utils/diff_handler.py  the Patch Engine                           *)
(*                              (apply_selected_suggestions and its helper *)
(*                              _set_value_by_path)                        *)
(*                                                                         *)
(* Representation.                                                         *)
(*   A YAML node is a record [kind, val, keys, kids]:                      *)
(*     scalar   kind = "scalar", val = the scalar, keys = kids = <<>>      *)
(*     mapping  kind = "map", keys = the keys in insertion order,          *)
(*              kids = the values, kids[i] being the value of keys[i]      *)
(*     sequence kind = "seq", kids = the items, keys = <<>>                *)
(*   A document text is a record [docs, layout]: docs is the stream of     *)
(*   trees the round-trip loader reads from it, layout is what the loader  *)
(*   does not keep (indentation widths, line ends, spacing):               *)
(*     "dumped"  the text is laid out as the configured dumper writes it   *)
(*     "source"  the text is laid out some other way                       *)
(*     "invalid" the text is not loadable YAML                             *)
(*   A path string is written as the tuple of its '.'-separated segments,  *)
(*   i.e. as the value of path_str.split('.').                             *)
(*   The operation types "수정" / "추가" / "삭제" are written "modify" /      *)
(*   "add" / "delete".                                                     *)
(***************************************************************************)
EXTENDS Integers, Sequences, FiniteSets, TLC

(* ------------------------------ bounds -------------------------------- *)

\* longest suggestion list a review session is started with
MaxSuggestions == 3

\* longest suggestion batch one patch call is given
MaxBatch == 2

\* most numbered blocks in a generated text given to the parser
MaxBlocks == 2

\* most queries one retrieval run is given
MaxQueries == 3

\* most /generate-answer requests made in one run
MaxRequests == 2

(* ---------------------------- YAML trees ------------------------------ *)

Scalar(v) == [kind |-> "scalar", val |-> v, keys |-> <<>>, kids |-> <<>>]

Mapping(ks, vs) == [kind |-> "map", val |-> "", keys |-> ks, kids |-> vs]

Sequence(items) == [kind |-> "seq", val |-> "", keys |-> <<>>, kids |-> items]

\* position of key k in the key list ks, 0 when absent  (key in current_level)
KeyPos(ks, k) ==
    IF \E i \in 1..Len(ks) : ks[i] = k
    THEN CHOOSE i \in 1..Len(ks) : ks[i] = k
    ELSE 0

\* a mapping assignment that leaves an existing key as it is
MapSet_KeepsExisting(m, k, v) ==
    IF KeyPos(m.keys, k) = 0
    THEN [m EXCEPT !.keys = Append(@, k), !.kids = Append(@, v)]
    ELSE m

\* current_level[key] = v on a mapping: overwrite in place, or append a new key
MapSet(m, k, v) ==
    IF KeyPos(m.keys, k) = 0
    THEN [m EXCEPT !.keys = Append(@, k), !.kids = Append(@, v)]
    ELSE [m EXCEPT !.kids[KeyPos(m.keys, k)] = v]

\* a removal that drops the last element whatever the position
RemoveAt_DropsLast(s, p) == SubSeq(s, 1, Len(s) - 1)

\* s without its element at position p
RemoveAt(s, p) == [i \in 1..(Len(s) - 1) |-> IF i < p THEN s[i] ELSE s[i + 1]]

\* del current_level[key] on a mapping that holds key
MapDel(m, k) ==
    [m EXCEPT !.keys = RemoveAt(@, KeyPos(m.keys, k)),
              !.kids = RemoveAt(@, KeyPos(m.keys, k))]

\* an update that puts new_data in the place of the mapping
MapUpdate_Replaces(m, nd, i) == nd

\* current_level.update(new_data): every key of new_data set in turn
RECURSIVE MapUpdate(_, _, _)
MapUpdate(m, nd, i) ==
    IF i > Len(nd.keys) THEN m
    ELSE MapUpdate(MapSet(m, nd.keys[i], nd.kids[i]), nd, i + 1)

\* key.isdigit() for the path segments of the model
IsDigit(k) == k \in {"0", "1", "2"}

\* int(key) for a segment with IsDigit(key)
IntOf(k) == CASE k = "0" -> 0 [] k = "1" -> 1 [] OTHER -> 2

(* ------------------------- proposed values ---------------------------- *)

\* '\n' in new_value_str
HasNewline(s) == s \in {"c: 1\nd: 2"}

\* yaml.load(new_value_str) of a one-line fragment
YamlLoadValue(s) ==
    CASE s = "false" -> Scalar("false")
      [] s = "true"  -> Scalar("true")
      [] s = "c: 1"  -> Mapping(<<"c">>, <<Scalar("1")>>)
      [] s = ""      -> Scalar("null")
      [] OTHER       -> Scalar(s)

\* new_value_as_yaml_obj: a multi-line value is kept as a block scalar, any
\* other value is parsed as a YAML fragment
ParseValue(s) == IF HasNewline(s) THEN Scalar(s) ELSE YamlLoadValue(s)

(* --------------------------- Patch Engine ----------------------------- *)

\* a walk that creates a missing non-terminal key as an empty mapping
SetValueByPath_CreatesMissing(cur, keys, i, sug_type, new_value_str) ==
    IF cur.kind = "map" /\ i < Len(keys) /\ KeyPos(cur.keys, keys[i]) = 0
    THEN MapSet(cur, keys[i], Mapping(<<>>, <<>>))
    ELSE cur

\* _set_value_by_path(data_obj, path_str, sug_type, new_value_str): the walk
\* over keys = path_str.split('.'), entered at segment i with current_level =
\* cur; the value is cur after the in-place mutation (cur itself when the walk
\* returns without mutating).
RECURSIVE SetValueByPath(_, _, _, _, _)
SetValueByPath(cur, keys, i, sug_type, new_value_str) ==
    LET key         == keys[i]
        is_last_key == (i = Len(keys))
        pos         == KeyPos(cur.keys, key)
        idx         == IntOf(key)
        new_value   == ParseValue(new_value_str)
    IN  IF cur.kind = "map"
        THEN IF pos = 0 /\ ~is_last_key
             THEN cur
             ELSE IF is_last_key
             THEN CASE sug_type = "modify" -> MapSet(cur, key, new_value)
                    [] sug_type = "add" ->
                         IF new_value.kind = "map"
                         THEN MapUpdate(cur, new_value, 1)
                         ELSE MapSet(cur, key, new_value)
                    [] sug_type = "delete" ->
                         IF pos # 0 THEN MapDel(cur, key) ELSE cur
                    [] OTHER -> cur
             ELSE [cur EXCEPT !.kids[pos] =
                       SetValueByPath(cur.kids[pos], keys, i + 1,
                                      sug_type, new_value_str)]
        ELSE IF cur.kind = "seq"
        THEN IF ~IsDigit(key)
             THEN cur
             ELSE IF idx >= Len(cur.kids)
             THEN cur
             ELSE IF is_last_key
             THEN CASE sug_type = "modify" ->
                         [cur EXCEPT !.kids[idx + 1] = new_value]
                    [] sug_type = "delete" ->
                         [cur EXCEPT !.kids = RemoveAt(@, idx + 1)]
                    [] OTHER -> cur
             ELSE [cur EXCEPT !.kids[idx + 1] =
                       SetValueByPath(cur.kids[idx + 1], keys, i + 1,
                                      sug_type, new_value_str)]
        ELSE cur

\* list(yaml.load_all(original_yaml)): the trees of the stream
YamlLoadAll(text) == text.docs

\* yaml.dump_all(docs, f) read back: the trees in the dumper's own layout
\* (indent mapping=2, sequence=4, offset=2), whatever layout they came in
YamlDumpAll(docs) == [docs |-> docs, layout |-> "dumped"]

\* the loop `for sug in selected_suggestions`: every suggestion is applied to
\* docs[0] only, and only when docs[0] is a mapping or a sequence
RECURSIVE ApplyAll(_, _, _)
ApplyAll(docs, sugs, n) ==
    IF n > Len(sugs) THEN docs
    ELSE ApplyAll(
           IF docs[1].kind \in {"map", "seq"}
           THEN [docs EXCEPT ![1] =
                    SetValueByPath(docs[1], sugs[n].path, 1, sugs[n].type,
                                   sugs[n].proposed_value)]
           ELSE docs,
           sugs, n + 1)

\* apply_selected_suggestions(original_yaml, selected_suggestions): a text
\* that does not load, or loads to no document, is returned as it is
apply_selected_suggestions(original_yaml, selected_suggestions) ==
    IF original_yaml.layout = "invalid" \/ YamlLoadAll(original_yaml) = <<>>
    THEN original_yaml
    ELSE YamlDumpAll(ApplyAll(YamlLoadAll(original_yaml),
                              selected_suggestions, 1))

\* the backend's /apply-patch handler, called by perform_apply_patch: the
\* patched text comes back under the key final_yaml
ApplyPatchEndpoint(original_yaml, selected_suggestions) ==
    [has_final_yaml |-> TRUE,
     final_yaml |-> apply_selected_suggestions(original_yaml,
                                               selected_suggestions)]

\* perform_apply_patch(original_yaml, selected_suggestions): the handler's
\* response, or {"error": ...} when the request fails
perform_apply_patch(original_yaml, selected_suggestions, request_ok) ==
    IF request_ok
    THEN ApplyPatchEndpoint(original_yaml, selected_suggestions)
    ELSE [has_final_yaml |-> FALSE, final_yaml |-> original_yaml]

(* ------------------------ inputs of the model ------------------------- *)

\* the document {a: {b: true}}
DocAB == Mapping(<<"a">>, <<Mapping(<<"b">>, <<Scalar("true")>>)>>)

\* uploaded document texts: the same tree laid out as the dumper would write
\* it and laid out otherwise, and a text that does not load
OriginalYamls ==
    { [docs |-> <<DocAB>>, layout |-> "source"],
      [docs |-> <<DocAB>>, layout |-> "dumped"],
      [docs |-> <<>>,      layout |-> "invalid"] }

\* suggestions as parse_line_suggestions returns them (the fields the review
\* session and the patch engine read): a.b := false, x.y := false with x
\* absent, and delete a.b
SuggestionPool ==
    { [type |-> "modify", path |-> <<"a", "b">>, proposed_value |-> "false"],
      [type |-> "modify", path |-> <<"x", "y">>, proposed_value |-> "false"],
      [type |-> "delete", path |-> <<"a", "b">>, proposed_value |-> ""] }

\* the suggestion lists a session can be started with
SuggestionLists ==
    UNION { [1..n -> SuggestionPool] : n \in 0..MaxSuggestions }

(* --------------------------- Review Session --------------------------- *)

VARIABLES
    in_session,        \* "line_suggestions" in st.session_state
    line_suggestions,  \* st.session_state.line_suggestions
    original_yaml,     \* st.session_state.original_yaml
    review_index,      \* st.session_state.review_index
    yaml_history,      \* st.session_state.yaml_history
    accepted_patches,  \* the summary of state B: the "index" of every patch
                       \* reported as applied
    messages,          \* st.session_state.messages: the applied / rejected
                       \* counts message of state B
    decisions,         \* history: the decision taken on each reviewed
                       \* suggestion, "accept" or "reject"
    last,              \* history: the latest button request, the message it
                       \* produced, the patch calls it made and the session
                       \* state it was made in
    last2,             \* history: the request before that
    runs,              \* the script runs of one session that execute the
                       \* accept handler at the same time
    patch,             \* one call of apply_selected_suggestions
    parse,             \* one call of parse_line_suggestions
    pipe,              \* one analysis: prepare task and generate-answer
    cons               \* one run of the evidence retrieval loop

vars == <<in_session, line_suggestions, original_yaml, review_index,
          yaml_history, accepted_patches, messages, decisions, last, last2,
          runs, patch, parse, pipe, cons>>

\* the variables of the review session
sessionVars == <<in_session, line_suggestions, original_yaml, review_index,
                 yaml_history, accepted_patches, messages, decisions, last,
                 last2>>

\* no script run, no patch call, no parse call and no analysis under way
Idle == [pc |-> "idle"]

\* st.session_state has no original_yaml yet
NoYaml == [docs |-> <<>>, layout |-> "unset"]

\* no request yet
NoEvent == [click |-> "none", notice |-> "none", calls |-> <<>>,
            review_index |-> 0, yaml_history |-> <<>>]

\* the request `click`, made in this state, answered with st.<notice>(...)
\* after the patch calls `calls`
Event(click, notice, calls) ==
    [click |-> click, notice |-> notice, calls |-> calls,
     review_index |-> review_index, yaml_history |-> yaml_history]

total_suggestions == Len(line_suggestions)

\* state A of the page: there are suggestions left to review
Reviewing == in_session /\ review_index < total_suggestions

\* state B of the page: every suggestion was reviewed
Complete == in_session /\ ~(review_index < total_suggestions)

\* mutant of BackDisabled: the back button is never disabled
BackDisabled_Never(current_idx) == FALSE

\* the disabled flag of the back button
BackDisabled(current_idx) == current_idx = 0

\* accepted_patches of state B, as the set of the "index" fields (i + 1)
AcceptedPatches(suggestions, idx, history) ==
    { i + 1 : i \in { j \in 0..(Len(suggestions) - 1) :
                        /\ j < idx
                        /\ j + 1 < Len(history)
                        /\ history[j + 1] # history[j + 2] } }

\* the script run that follows st.rerun(): state B computes the summary and,
\* when there is no message yet, posts the applied / rejected counts
Rerun(suggestions, idx, history) ==
    IF idx < Len(suggestions)
    THEN UNCHANGED <<accepted_patches, messages>>
    ELSE LET applied == AcceptedPatches(suggestions, idx, history)
         IN  /\ accepted_patches' = applied
             /\ messages' =
                  IF Len(messages) = 0
                  THEN <<[applied  |-> Cardinality(applied),
                          rejected |-> Len(suggestions)
                                         - Cardinality(applied)]>>
                  ELSE messages

Init ==
    /\ in_session = FALSE
    /\ line_suggestions = <<>>
    /\ original_yaml = NoYaml
    /\ review_index = 0
    /\ yaml_history = <<>>
    /\ accepted_patches = {}
    /\ messages = <<>>
    /\ decisions = <<>>
    /\ last = NoEvent
    /\ last2 = NoEvent
    /\ runs = Idle
    /\ patch = Idle
    /\ parse = Idle
    /\ pipe = Idle
    /\ cons = Idle

\* the expert-mode analysis returned line_suggestions and original_yaml; the
\* rerun initialises review_index and yaml_history
StartReview(suggestions, yaml) ==
    /\ UNCHANGED <<runs, patch, parse, pipe, cons>>
    /\ ~in_session
    /\ in_session' = TRUE
    /\ line_suggestions' = suggestions
    /\ original_yaml' = yaml
    /\ review_index' = 0
    /\ yaml_history' = <<yaml>>
    /\ decisions' = <<>>
    /\ last' = NoEvent
    /\ last2' = NoEvent
    /\ Rerun(suggestions, 0, <<yaml>>)

\* mutant of Accept: the whole suggestion list is sent to the patch call
Accept_SendsAll(request_ok) ==
    /\ UNCHANGED <<runs, patch, parse, pipe, cons>>
    /\ Reviewing
    /\ LET call == [original_yaml |-> yaml_history[Len(yaml_history)],
                    selected_suggestions |-> line_suggestions]
           patch_response == perform_apply_patch(
                                 call.original_yaml,
                                 call.selected_suggestions, request_ok)
       IN  IF patch_response.has_final_yaml
           THEN /\ yaml_history' = Append(yaml_history,
                                          patch_response.final_yaml)
                /\ review_index' = review_index + 1
                /\ decisions' = Append(decisions, "accept")
                /\ last' = Event("accept", "success", <<call>>)
                /\ Rerun(line_suggestions, review_index', yaml_history')
           ELSE /\ last' = Event("accept", "error", <<call>>)
                /\ UNCHANGED <<yaml_history, review_index, decisions,
                               accepted_patches, messages>>
    /\ last2' = last
    /\ UNCHANGED <<in_session, line_suggestions, original_yaml>>

\* mutant of Accept: the patched text also overwrites the snapshot it was
\* made from
Accept_InPlace(request_ok) ==
    /\ UNCHANGED <<runs, patch, parse, pipe, cons>>
    /\ Reviewing
    /\ LET call == [original_yaml |-> yaml_history[Len(yaml_history)],
                    selected_suggestions |->
                        <<line_suggestions[review_index + 1]>>]
           patch_response == perform_apply_patch(
                                 call.original_yaml,
                                 call.selected_suggestions, request_ok)
       IN  IF patch_response.has_final_yaml
           THEN /\ yaml_history' =
                     Append([yaml_history EXCEPT ![Len(yaml_history)] =
                                 patch_response.final_yaml],
                            patch_response.final_yaml)
                /\ review_index' = review_index + 1
                /\ decisions' = Append(decisions, "accept")
                /\ last' = Event("accept", "success", <<call>>)
                /\ Rerun(line_suggestions, review_index', yaml_history')
           ELSE /\ last' = Event("accept", "error", <<call>>)
                /\ UNCHANGED <<yaml_history, review_index, decisions,
                               accepted_patches, messages>>
    /\ last2' = last
    /\ UNCHANGED <<in_session, line_suggestions, original_yaml>>

\* mutant of Accept: on a response without final_yaml the unpatched text is
\* pushed
Accept_PushesOnError(request_ok) ==
    /\ UNCHANGED <<runs, patch, parse, pipe, cons>>
    /\ Reviewing
    /\ LET call == [original_yaml |-> yaml_history[Len(yaml_history)],
                    selected_suggestions |->
                        <<line_suggestions[review_index + 1]>>]
           patch_response == perform_apply_patch(
                                 call.original_yaml,
                                 call.selected_suggestions, request_ok)
       IN  IF patch_response.has_final_yaml
           THEN /\ yaml_history' = Append(yaml_history,
                                          patch_response.final_yaml)
                /\ review_index' = review_index + 1
                /\ decisions' = Append(decisions, "accept")
                /\ last' = Event("accept", "success", <<call>>)
                /\ Rerun(line_suggestions, review_index', yaml_history')
           ELSE /\ yaml_history' = Append(yaml_history, call.original_yaml)
                /\ last' = Event("accept", "error", <<call>>)
                /\ UNCHANGED <<review_index, decisions, accepted_patches,
                               messages>>
    /\ last2' = last
    /\ UNCHANGED <<in_session, line_suggestions, original_yaml>>

\* the accept button: the patch of the current suggestion alone against the
\* top of the history; on a response without final_yaml nothing is stored
Accept(request_ok) ==
    /\ UNCHANGED <<runs, patch, parse, pipe, cons>>
    /\ Reviewing
    /\ LET current_idx          == review_index
           current_yaml_content == yaml_history[Len(yaml_history)]
           current_sug          == line_suggestions[current_idx + 1]
           call                 == [original_yaml |-> current_yaml_content,
                                    selected_suggestions |-> <<current_sug>>]
           patch_response       == perform_apply_patch(
                                       call.original_yaml,
                                       call.selected_suggestions, request_ok)
       IN  IF patch_response.has_final_yaml
           THEN /\ yaml_history' = Append(yaml_history,
                                          patch_response.final_yaml)
                /\ review_index' = review_index + 1
                /\ decisions' = Append(decisions, "accept")
                /\ last' = Event("accept", "success", <<call>>)
                /\ Rerun(line_suggestions, review_index', yaml_history')
           ELSE /\ last' = Event("accept", "error", <<call>>)
                /\ UNCHANGED <<yaml_history, review_index, decisions,
                               accepted_patches, messages>>
    /\ last2' = last
    /\ UNCHANGED <<in_session, line_suggestions, original_yaml>>

\* mutant of Reject: the pushed snapshot is the current text sent through the
\* patch call with no suggestion
Reject_ReSerialises ==
    /\ UNCHANGED <<runs, patch, parse, pipe, cons>>
    /\ Reviewing
    /\ LET call == [original_yaml |-> yaml_history[Len(yaml_history)],
                    selected_suggestions |-> <<>>]
       IN  /\ yaml_history' =
                Append(yaml_history,
                       apply_selected_suggestions(call.original_yaml,
                                                  call.selected_suggestions))
           /\ last' = Event("reject", "info", <<call>>)
    /\ review_index' = review_index + 1
    /\ decisions' = Append(decisions, "reject")
    /\ last2' = last
    /\ Rerun(line_suggestions, review_index', yaml_history')
    /\ UNCHANGED <<in_session, line_suggestions, original_yaml>>

\* mutant of Reject: the button is also there in state B
Reject_AnyState ==
    /\ UNCHANGED <<runs, patch, parse, pipe, cons>>
    /\ in_session
    /\ LET current_yaml_content == yaml_history[Len(yaml_history)]
       IN  yaml_history' = Append(yaml_history, current_yaml_content)
    /\ review_index' = review_index + 1
    /\ decisions' = Append(decisions, "reject")
    /\ last' = Event("reject", "info", <<>>)
    /\ last2' = last
    /\ Rerun(line_suggestions, review_index', yaml_history')
    /\ UNCHANGED <<in_session, line_suggestions, original_yaml>>

\* the reject button
Reject ==
    /\ UNCHANGED <<runs, patch, parse, pipe, cons>>
    /\ Reviewing
    /\ LET current_yaml_content == yaml_history[Len(yaml_history)]
       IN  yaml_history' = Append(yaml_history, current_yaml_content)
    /\ review_index' = review_index + 1
    /\ decisions' = Append(decisions, "reject")
    /\ last' = Event("reject", "info", <<>>)
    /\ last2' = last
    /\ Rerun(line_suggestions, review_index', yaml_history')
    /\ UNCHANGED <<in_session, line_suggestions, original_yaml>>

\* mutant of Back: the cursor goes back but the snapshot stays
Back_KeepsTop ==
    /\ UNCHANGED <<runs, patch, parse, pipe, cons>>
    /\ Reviewing
    /\ ~BackDisabled(review_index)
    /\ review_index' = review_index - 1
    /\ yaml_history' = yaml_history
    /\ decisions' = SubSeq(decisions, 1, Len(decisions) - 1)
    /\ last' = Event("back", "warning", <<>>)
    /\ last2' = last
    /\ Rerun(line_suggestions, review_index', yaml_history')
    /\ UNCHANGED <<in_session, line_suggestions, original_yaml>>

\* mutant of Back: the restored text is derived again, by sending the
\* snapshot below the top through the patch engine
Back_ReDerives ==
    /\ UNCHANGED <<runs, patch, parse, pipe, cons>>
    /\ Reviewing
    /\ ~BackDisabled(review_index)
    /\ review_index' = review_index - 1
    /\ yaml_history' =
         [SubSeq(yaml_history, 1, Len(yaml_history) - 1)
            EXCEPT ![Len(yaml_history) - 1] =
               apply_selected_suggestions(yaml_history[Len(yaml_history) - 1],
                                          <<>>)]
    /\ decisions' = SubSeq(decisions, 1, Len(decisions) - 1)
    /\ last' = Event("back", "warning", <<>>)
    /\ last2' = last
    /\ Rerun(line_suggestions, review_index', yaml_history')
    /\ UNCHANGED <<in_session, line_suggestions, original_yaml>>

\* the back button, enabled
Back ==
    /\ UNCHANGED <<runs, patch, parse, pipe, cons>>
    /\ Reviewing
    /\ ~BackDisabled(review_index)
    /\ review_index' = review_index - 1
    /\ yaml_history' = SubSeq(yaml_history, 1, Len(yaml_history) - 1)
    /\ decisions' = SubSeq(decisions, 1, Len(decisions) - 1)
    /\ last' = Event("back", "warning", <<>>)
    /\ last2' = last
    /\ Rerun(line_suggestions, review_index', yaml_history')
    /\ UNCHANGED <<in_session, line_suggestions, original_yaml>>

\* a press on the back button while it is disabled: st.button returns False,
\* no handler runs and nothing is shown
BackWhileDisabled ==
    /\ UNCHANGED <<runs, patch, parse, pipe, cons>>
    /\ Reviewing
    /\ BackDisabled(review_index)
    /\ last' = Event("back", "none", <<>>)
    /\ last2' = last
    /\ UNCHANGED <<in_session, line_suggestions, original_yaml, review_index,
                   yaml_history, accepted_patches, messages, decisions>>

\* mutant of ReviewButtonInStateB: state B has a working reject button
ReviewButtonInStateB_Acts(button) ==
    /\ UNCHANGED <<runs, patch, parse, pipe, cons>>
    /\ Complete
    /\ IF button = "reject"
       THEN /\ review_index' = review_index + 1
            /\ yaml_history' = Append(yaml_history,
                                      yaml_history[Len(yaml_history)])
            /\ decisions' = Append(decisions, "reject")
            /\ last' = Event(button, "info", <<>>)
       ELSE /\ last' = Event(button, "none", <<>>)
            /\ UNCHANGED <<review_index, yaml_history, decisions>>
    /\ last2' = last
    /\ UNCHANGED <<in_session, line_suggestions, original_yaml,
                   accepted_patches, messages>>

\* a request for accept, reject or back in state B: the page renders none of
\* the three buttons there, so no handler runs and nothing is shown
ReviewButtonInStateB(button) ==
    /\ UNCHANGED <<runs, patch, parse, pipe, cons>>
    /\ Complete
    /\ last' = Event(button, "none", <<>>)
    /\ last2' = last
    /\ UNCHANGED <<in_session, line_suggestions, original_yaml, review_index,
                   yaml_history, accepted_patches, messages, decisions>>

\* "start a new analysis" (sidebar) / "analyse again from the start" (state
\* B): the listed session keys are deleted; original_yaml is not among them
NewAnalysis ==
    /\ UNCHANGED <<runs, patch, parse, pipe, cons>>
    /\ in_session
    /\ in_session' = FALSE
    /\ line_suggestions' = <<>>
    /\ review_index' = 0
    /\ yaml_history' = <<>>
    /\ accepted_patches' = {}
    /\ messages' = <<>>
    /\ decisions' = <<>>
    /\ last' = NoEvent
    /\ last2' = NoEvent
    /\ UNCHANGED original_yaml

Next ==
    \/ \E suggestions \in SuggestionLists, yaml \in OriginalYamls :
          StartReview(suggestions, yaml)
    \/ \E request_ok \in BOOLEAN : Accept(request_ok)
    \/ Reject
    \/ Back
    \/ BackWhileDisabled
    \/ \E button \in {"accept", "reject", "back"} : ReviewButtonInStateB(button)
    \/ NewAnalysis

Spec == Init /\ [][Next]_vars

(* ------------------------------ claims -------------------------------- *)

\* the top of a non-empty history
Top(history) == history[Len(history)]

\* the request recorded in e was made in state A / in state B
MadeInReviewing(e) == e.review_index < total_suggestions
MadeInComplete(e) == ~(e.review_index < total_suggestions)

\* C1: in a review session, after every Accept, Reject and Undo,
\* len(yaml_history) == review_index + 1.
C1_HistoryLength ==
    in_session => Len(yaml_history) = review_index + 1

\* a Reject, an Accept and then an Undo were taken
C1_Witness ==
    /\ in_session
    /\ Len(decisions) = 1 /\ decisions[1] = "reject"
    /\ last2.click = "accept" /\ last2.notice = "success"
    /\ last.click = "back" /\ last.notice = "warning"

\* C2: an Undo taken right after an Accept or a Reject returns review_index
\* and the whole yaml_history to what they were before that decision, and it
\* does so by dropping the top of the history.
C2_UndoInverse ==
    ( /\ last2.click \in {"accept", "reject"}
      /\ last2.notice \in {"success", "info"}
      /\ last.click = "back" /\ last.notice = "warning" )
    => /\ review_index = last2.review_index
       /\ yaml_history = last2.yaml_history
       /\ yaml_history = SubSeq(last.yaml_history, 1,
                                Len(last.yaml_history) - 1)

\* an Accept that changed the document text was undone
C2_Witness ==
    /\ last2.click = "accept" /\ last2.notice = "success"
    /\ last.click = "back" /\ last.notice = "warning"
    /\ Top(last.yaml_history) # Top(yaml_history)

\* the effect of an Accept whose request is recorded in e: one patch call,
\* of suggestions[cursor] alone against the top of the history, its result
\* pushed, the cursor advanced by one
AcceptEffect(e) ==
    /\ e.calls = <<[original_yaml |-> Top(e.yaml_history),
                    selected_suggestions |->
                        <<line_suggestions[e.review_index + 1]>>]>>
    /\ yaml_history =
         Append(e.yaml_history,
                apply_selected_suggestions(e.calls[1].original_yaml,
                                           e.calls[1].selected_suggestions))
    /\ review_index = e.review_index + 1

\* C3: an Accept in state A that gets the Patch Engine's result (the response
\* carries final_yaml) has called the engine with the current suggestion
\* alone against the top of the history, pushes that result as one new
\* snapshot and advances the cursor by one.
C3_AcceptPushesResult ==
    (last.click = "accept" /\ MadeInReviewing(last)
        /\ last.notice = "success") => AcceptEffect(last)

\* the second suggestion of a list was accepted and changed the document
C3_Witness ==
    /\ last.click = "accept" /\ last.notice = "success"
    /\ last.review_index = 1
    /\ Top(yaml_history).docs # Top(last.yaml_history).docs

\* C4: a Reject in state A pushes one snapshot identical to the previous top
\* of the history, makes no patch call and advances the cursor by one.
C4_RejectPushesCopy ==
    (last.click = "reject" /\ MadeInReviewing(last))
    => /\ yaml_history = Append(last.yaml_history, Top(last.yaml_history))
       /\ last.calls = <<>>
       /\ review_index = last.review_index + 1

\* a suggestion was rejected on a history that an Accept had extended
C4_Witness ==
    /\ last.click = "reject" /\ last.notice = "info"
    /\ last2.click = "accept" /\ last2.notice = "success"
    /\ Len(yaml_history) = 3

\* C5: an Undo request in state A acts only when the cursor is above 0, and
\* then drops one snapshot and lowers the cursor by one; at cursor 0 it does
\* nothing; the cursor is never negative, the history of a session is never
\* empty and its first element is the original document.
C5_UndoGuard ==
    /\ review_index >= 0
    /\ in_session => /\ Len(yaml_history) >= 1
                     /\ yaml_history[1] = original_yaml
    /\ (last.click = "back" /\ MadeInReviewing(last))
       => IF last.review_index > 0
          THEN /\ review_index = last.review_index - 1
               /\ Len(yaml_history) = Len(last.yaml_history) - 1
          ELSE /\ review_index = last.review_index
               /\ yaml_history = last.yaml_history

\* an Undo was taken at cursor 1 and another one requested at cursor 0
C5_Witness ==
    /\ last2.click = "back" /\ last2.notice = "warning"
    /\ last2.review_index = 1
    /\ last.click = "back" /\ last.review_index = 0

\* C6: within a session every step leaves the snapshots already on the
\* history as they are: the history before and after agree on their common
\* prefix, the length changes by at most one, and element 0 stays the
\* original document.
C6_HistoryAppendOnly ==
    [][ (in_session /\ in_session')
        => /\ Len(yaml_history') \in { Len(yaml_history) - 1,
                                       Len(yaml_history),
                                       Len(yaml_history) + 1 }
           /\ \A i \in 1..Len(yaml_history) :
                 i <= Len(yaml_history') => yaml_history'[i] = yaml_history[i]
           /\ yaml_history'[1] = original_yaml ]_vars

\* an Accept changed the document, and after an Undo of a later decision the
\* changed snapshot is still on the history below the top
C6_Witness ==
    /\ in_session
    /\ last.click = "back" /\ last.notice = "warning"
    /\ Len(yaml_history) = 2
    /\ yaml_history[2] # yaml_history[1]

\* C7: the cursor never exceeds the number of suggestions, so state B is
\* cursor = number of suggestions; a request for Accept, Reject or Undo made
\* in state B changes nothing, and from state B no step changes the cursor or
\* the history as long as the session is not discarded.
C7_CompleteIsFinal ==
    /\ [](in_session => review_index <= total_suggestions)
    /\ [](Complete <=> (in_session /\ review_index = total_suggestions))
    /\ [][ (Complete /\ in_session')
           => UNCHANGED <<review_index, yaml_history>> ]_vars

\* state B was reached by a decision and a review button requested there
C7_Witness ==
    /\ Complete
    /\ total_suggestions >= 1
    /\ last.click \in {"accept", "reject", "back"}
    /\ MadeInComplete(last)

\* the request recorded in e is an invalid transition: Undo at cursor 0, or
\* Accept / Reject in state B
InvalidTransition(e) ==
    \/ e.click = "back" /\ e.review_index = 0
    \/ e.click \in {"accept", "reject"} /\ MadeInComplete(e)

\* C8 as stated: an invalid transition is answered with an error signal and
\* leaves cursor and history unchanged.
C8_InvalidSignalsError ==
    (in_session /\ InvalidTransition(last))
    => /\ last.notice = "error"
       /\ review_index = last.review_index
       /\ yaml_history = last.yaml_history

\* C8 amended: an invalid transition cannot be taken: the Undo button is
\* disabled at cursor 0 and state B has no Accept or Reject button; such a
\* request leaves cursor and history unchanged, runs no handler, makes no
\* patch call and shows no message.
C8_InvalidIsUnavailable ==
    (in_session /\ InvalidTransition(last))
    => /\ last.notice = "none"
       /\ last.calls = <<>>
       /\ review_index = last.review_index
       /\ yaml_history = last.yaml_history

\* Undo was requested at cursor 0 while the first suggestion was under review
C8_Witness ==
    /\ Reviewing
    /\ last.click = "back" /\ last.review_index = 0
    /\ review_index = 0

\* the accept of suggestion i (1-based) left the tree of the document as it
\* was
AcceptWasNoOp(i) == yaml_history[i + 1].docs = yaml_history[i].docs

\* C9: in state B suggestion i is reported as applied iff snapshot[i] differs
\* from snapshot[i+1]; every Reject and every Accept whose patch was a no-op
\* is reported as skipped, every Accept that changed the document as applied.
C9_SummaryMatchesDecisions ==
    Complete =>
      \A i \in 1..total_suggestions :
         /\ (i \in accepted_patches) <=> (yaml_history[i] # yaml_history[i + 1])
         /\ decisions[i] = "reject" => i \notin accepted_patches
         /\ (decisions[i] = "accept" /\ AcceptWasNoOp(i))
               => i \notin accepted_patches
         /\ (decisions[i] = "accept" /\ ~AcceptWasNoOp(i))
               => i \in accepted_patches

\* the path keys, walked from segment i at node, meets a mapping that lacks a
\* non-terminal segment
RECURSIVE MissingNonTerminal(_, _, _)
MissingNonTerminal(node, keys, i) ==
    /\ i < Len(keys)
    /\ node.kind = "map"
    /\ \/ KeyPos(node.keys, keys[i]) = 0
       \/ MissingNonTerminal(node.kids[KeyPos(node.keys, keys[i])], keys, i + 1)

\* suggestion i (1-based) was accepted against a loadable document in which a
\* non-terminal segment of its path does not exist
AcceptedUnresolved(i) ==
    /\ i <= Len(decisions)
    /\ decisions[i] = "accept"
    /\ yaml_history[i].docs # <<>>
    /\ MissingNonTerminal(yaml_history[i].docs[1], line_suggestions[i].path, 1)

\* C10: the Accept of a suggestion whose path has a missing non-terminal
\* segment pushes a snapshot equal to the previous top of the history, and
\* the suggestion is reported as skipped in the summary of state B.
C10_UnresolvedAcceptIsSkipped ==
    in_session =>
      \A i \in 1..total_suggestions :
         AcceptedUnresolved(i)
         => /\ yaml_history[i + 1] = yaml_history[i]
            /\ Complete => i \notin accepted_patches

(* ------------- two accept handlers of one session at once ------------- *)

\* the script runs that handle an accept click on the same session
Runs == {1, 2}

\* a script run that is not executing
RunIdle == [at |-> "idle", current_idx |-> 0, current_yaml_content |-> NoYaml,
            final_yaml |-> NoYaml, read_index |-> 0]

RunsIdle == \A r \in Runs : runs.run[r].at = "idle"

\* a session of at least one suggestion is under review and no handler runs
InitRace ==
    /\ \E suggestions \in SuggestionLists \ {<<>>}, yaml \in OriginalYamls :
          /\ line_suggestions = suggestions
          /\ original_yaml = yaml
          /\ yaml_history = <<yaml>>
    /\ in_session = TRUE
    /\ review_index = 0
    /\ accepted_patches = {}
    /\ messages = <<>>
    /\ decisions = <<>>
    /\ last = NoEvent
    /\ last2 = NoEvent
    /\ runs = [pc |-> "racing", overlap |-> FALSE,
               run |-> [r \in Runs |-> RunIdle]]
    /\ patch = Idle
    /\ parse = Idle
    /\ pipe = Idle
    /\ cons = Idle

\* what no step of a racing handler writes
RaceFrame ==
    UNCHANGED <<in_session, line_suggestions, original_yaml, accepted_patches,
                messages, decisions, last, last2, patch, parse, pipe, cons>>

\* the script run r starts on an accept click in state A: it reads
\* review_index and yaml_history[-1]
RunRead(r) ==
    /\ runs.run[r].at = "idle"
    /\ review_index < total_suggestions
    /\ runs' = [runs EXCEPT
                  !.overlap = @ \/ \E o \in Runs \ {r} : runs.run[o].at # "idle",
                  !.run[r] = [RunIdle EXCEPT
                                !.at = "call",
                                !.current_idx = review_index,
                                !.current_yaml_content =
                                    yaml_history[Len(yaml_history)]]]
    /\ UNCHANGED <<review_index, yaml_history>>
    /\ RaceFrame

\* the run r calls perform_apply_patch with the suggestion and the text it read
RunCall(r, request_ok) ==
    /\ runs.run[r].at = "call"
    /\ LET me == runs.run[r]
           patch_response ==
               perform_apply_patch(me.current_yaml_content,
                                   <<line_suggestions[me.current_idx + 1]>>,
                                   request_ok)
       IN  runs' = IF patch_response.has_final_yaml
                   THEN [runs EXCEPT !.run[r].at = "append",
                                     !.run[r].final_yaml =
                                         patch_response.final_yaml]
                   ELSE [runs EXCEPT !.run[r] = RunIdle]
    /\ UNCHANGED <<review_index, yaml_history>>
    /\ RaceFrame

\* mutant of RunAppend: the response is not stored
RunAppend_Drops(r) ==
    /\ runs.run[r].at = "append"
    /\ yaml_history' = yaml_history
    /\ runs' = [runs EXCEPT !.run[r].at = "load_index"]
    /\ UNCHANGED review_index
    /\ RaceFrame

\* st.session_state.yaml_history.append(patch_response["final_yaml"])
RunAppend(r) ==
    /\ runs.run[r].at = "append"
    /\ yaml_history' = Append(yaml_history, runs.run[r].final_yaml)
    /\ runs' = [runs EXCEPT !.run[r].at = "load_index"]
    /\ UNCHANGED review_index
    /\ RaceFrame

\* st.session_state.review_index += 1, the read of the old value
RunLoadIndex(r) ==
    /\ runs.run[r].at = "load_index"
    /\ runs' = [runs EXCEPT !.run[r].at = "store_index",
                            !.run[r].read_index = review_index]
    /\ UNCHANGED <<review_index, yaml_history>>
    /\ RaceFrame

\* st.session_state.review_index += 1, the write of the new value; st.rerun()
\* ends the run
RunStoreIndex(r) ==
    /\ runs.run[r].at = "store_index"
    /\ review_index' = runs.run[r].read_index + 1
    /\ runs' = [runs EXCEPT !.run[r] = RunIdle]
    /\ UNCHANGED yaml_history
    /\ RaceFrame

NextRace ==
    \/ \E r \in Runs : RunRead(r)
    \/ \E r \in Runs, request_ok \in BOOLEAN : RunCall(r, request_ok)
    \/ \E r \in Runs : RunAppend(r)
    \/ \E r \in Runs : RunLoadIndex(r)
    \/ \E r \in Runs : RunStoreIndex(r)

SpecRace == InitRace /\ [][NextRace]_vars

\* C11: as long as no accept handler started while another one was running,
\* len(yaml_history) == review_index + 1 holds whenever no handler is running;
\* two handlers whose steps interleave can end in a state that breaks it (the
\* witness).
C11_SerializedKeepsInvariant ==
    (RunsIdle /\ ~runs.overlap) => Len(yaml_history) = review_index + 1

\* two accept handlers overlapped, both have ended, and the history is longer
\* than review_index + 1
C11_Witness ==
    /\ RunsIdle
    /\ runs.overlap
    /\ Len(yaml_history) # review_index + 1

(* ------------------ one call of the Patch Engine ---------------------- *)

\* the document {s: [p, q], a: {b: true}}
DocSeq == Mapping(<<"s", "a">>,
                  <<Sequence(<<Scalar("p"), Scalar("q")>>),
                    Mapping(<<"b">>, <<Scalar("true")>>)>>)

\* the document [{b: true}, q], a sequence at the top
DocTopSeq == Sequence(<<Mapping(<<"b">>, <<Scalar("true")>>), Scalar("q")>>)

\* document texts a patch call is given: one document in either layout, a
\* stream of two documents, a scalar document, an empty stream and a text
\* that does not load
PatchTexts ==
    { [docs |-> <<DocAB>>,            layout |-> "source"],
      [docs |-> <<DocAB>>,            layout |-> "dumped"],
      [docs |-> <<DocSeq>>,           layout |-> "source"],
      [docs |-> <<DocTopSeq>>,        layout |-> "dumped"],
      [docs |-> <<DocAB, DocSeq>>,    layout |-> "source"],
      [docs |-> <<DocSeq, DocAB>>,    layout |-> "dumped"],
      [docs |-> <<Scalar("p"), DocAB>>, layout |-> "source"],
      [docs |-> <<>>,                 layout |-> "source"],
      [docs |-> <<>>,                 layout |-> "invalid"] }

\* a suggestion with the fields the patch engine reads
Sug(type, path, value) ==
    [type |-> type, path |-> path, proposed_value |-> value]

\* suggestions a patch call is given: the three operations on mapping keys and
\* on sequence indices, a multi-line value, and suggestions whose path does
\* not resolve or whose operation is not one of the three
PatchSuggestions ==
    { Sug("modify", <<"a", "b">>, "false"),
      Sug("modify", <<"a", "b">>, "c: 1\nd: 2"),
      Sug("modify", <<"s", "0">>, "false"),
      Sug("modify", <<"0", "b">>, "false"),
      Sug("delete", <<"a", "b">>, ""),
      Sug("delete", <<"s", "0">>, ""),
      Sug("delete", <<"s", "1">>, ""),
      Sug("add",    <<"a", "b">>, "c: 1"),
      Sug("add",    <<"a", "c">>, "true"),
      Sug("add",    <<"s", "0">>, "false"),
      Sug("modify", <<"x", "y">>, "false"),
      Sug("modify", <<"s", "2">>, "false"),
      Sug("delete", <<"s", "k">>, ""),
      Sug("modify", <<"a", "b", "c">>, "false"),
      Sug("replace", <<"a", "b">>, "false") }

\* the batches a patch call is given
PatchBatches == UNION { [1..n -> PatchSuggestions] : n \in 0..MaxBatch }

\* a patch call is about to be made
InitPatch ==
    /\ \E text \in PatchTexts, batch \in PatchBatches :
          patch = [pc |-> "load", original_yaml |-> text,
                   selected_suggestions |-> batch, docs |-> <<>>,
                   prev |-> <<>>, n |-> 0, final_yaml_str |-> NoYaml]
    /\ in_session = FALSE
    /\ line_suggestions = <<>>
    /\ original_yaml = NoYaml
    /\ review_index = 0
    /\ yaml_history = <<>>
    /\ accepted_patches = {}
    /\ messages = <<>>
    /\ decisions = <<>>
    /\ last = NoEvent
    /\ last2 = NoEvent
    /\ runs = Idle
    /\ parse = Idle
    /\ pipe = Idle
    /\ cons = Idle

\* docs = list(yaml.load_all(original_yaml)); a text that does not load, or
\* loads to no document, is returned as it is
LoadAll ==
    /\ patch.pc = "load"
    /\ IF patch.original_yaml.layout = "invalid"
          \/ YamlLoadAll(patch.original_yaml) = <<>>
       THEN patch' = [patch EXCEPT !.pc = "done",
                                   !.final_yaml_str = patch.original_yaml]
       ELSE patch' = [patch EXCEPT !.pc = "loop",
                                   !.docs = YamlLoadAll(patch.original_yaml),
                                   !.prev = YamlLoadAll(patch.original_yaml)]
    /\ UNCHANGED <<sessionVars, runs, parse, pipe, cons>>

\* a loop iteration that applies the suggestion to every sub-document
ApplySuggestion_EveryDoc ==
    /\ patch.pc = "loop"
    /\ patch.n < Len(patch.selected_suggestions)
    /\ patch' = [patch EXCEPT
                   !.n = patch.n + 1,
                   !.prev = patch.docs,
                   !.docs = [k \in 1..Len(patch.docs) |->
                               ApplyAll(<<patch.docs[k]>>,
                                        <<patch.selected_suggestions[patch.n + 1]>>,
                                        1)[1]]]
    /\ UNCHANGED <<sessionVars, runs, parse, pipe, cons>>

\* one iteration of `for sug in selected_suggestions`: patch.n counts the
\* suggestions gone through, patch.prev keeps docs as the iteration found it
ApplySuggestion ==
    /\ patch.pc = "loop"
    /\ patch.n < Len(patch.selected_suggestions)
    /\ patch' = [patch EXCEPT
                   !.n = patch.n + 1,
                   !.prev = patch.docs,
                   !.docs = ApplyAll(patch.docs,
                                     <<patch.selected_suggestions[patch.n + 1]>>,
                                     1)]
    /\ UNCHANGED <<sessionVars, runs, parse, pipe, cons>>

\* yaml.dump_all(docs, f) after the loop, and the text read back
DumpAll ==
    /\ patch.pc = "loop"
    /\ patch.n = Len(patch.selected_suggestions)
    /\ patch' = [patch EXCEPT !.pc = "done",
                              !.final_yaml_str = YamlDumpAll(patch.docs)]
    /\ UNCHANGED <<sessionVars, runs, parse, pipe, cons>>

NextPatch == LoadAll \/ ApplySuggestion \/ DumpAll

SpecPatch == InitPatch /\ [][NextPatch]_vars

\* the stepwise call returns what apply_selected_suggestions returns
PatchCallAgrees ==
    patch.pc = "done" =>
        patch.final_yaml_str =
            apply_selected_suggestions(patch.original_yaml,
                                       patch.selected_suggestions)

(* --------------------- reading a tree by its paths -------------------- *)

\* what re-resolving a path finds when the path is not in the tree
Absent == [kind |-> "absent", val |-> "", keys |-> <<>>, kids |-> <<>>]

\* the node that the segments keys[i..] lead to from node, Absent when a
\* mapping lacks the key, a sequence lacks the index or the walk meets a scalar
RECURSIVE Lookup(_, _, _)
Lookup(node, keys, i) ==
    IF i > Len(keys) THEN node
    ELSE IF node.kind = "map"
    THEN IF KeyPos(node.keys, keys[i]) = 0 THEN Absent
         ELSE Lookup(node.kids[KeyPos(node.keys, keys[i])], keys, i + 1)
    ELSE IF node.kind = "seq"
    THEN IF ~IsDigit(keys[i]) \/ IntOf(keys[i]) >= Len(node.kids) THEN Absent
         ELSE Lookup(node.kids[IntOf(keys[i]) + 1], keys, i + 1)
    ELSE Absent

\* the path segment that addresses item n of a sequence
IndexSeg(n) == CASE n = 0 -> "0" [] n = 1 -> "1" [] OTHER -> "2"

\* every path that resolves in node
RECURSIVE PathsOf(_)
PathsOf(node) ==
    IF node.kind = "map"
    THEN UNION { {<<node.keys[i]>>}
                 \cup { <<node.keys[i]>> \o q : q \in PathsOf(node.kids[i]) }
                 : i \in 1..Len(node.keys) }
    ELSE IF node.kind = "seq"
    THEN UNION { {<<IndexSeg(i - 1)>>}
                 \cup { <<IndexSeg(i - 1)>> \o q : q \in PathsOf(node.kids[i]) }
                 : i \in 1..Len(node.kids) }
    ELSE {}

IsPrefix(p, q) == Len(p) <= Len(q) /\ SubSeq(q, 1, Len(p)) = p

\* q addresses a location neither on the way to p nor below p
OtherPath(p, q) == ~IsPrefix(p, q) /\ ~IsPrefix(q, p)

\* the validity rule of a suggestion: a path, and a value unless it deletes
ValidSuggestion(sug) ==
    /\ sug.path # <<"">>
    /\ (sug.proposed_value # "" \/ sug.type = "delete")

\* the iteration just made: its suggestion, and the first sub-document before
\* and after it
Applied == patch.pc = "loop" /\ patch.n > 0
CurrentSug == patch.selected_suggestions[patch.n]
TreeBefore == patch.prev[1]
TreeAfter == patch.docs[1]

\* C12: after a valid modify whose path resolved to a scalar of the first
\* sub-document, re-reading the path gives the parsed proposed_value, and
\* every path that is neither on the way to it nor below it reads as before.
C12_ModifySetsValue ==
    (/\ Applied
     /\ CurrentSug.type = "modify"
     /\ ValidSuggestion(CurrentSug)
     /\ Lookup(TreeBefore, CurrentSug.path, 1).kind = "scalar")
    => /\ Lookup(TreeAfter, CurrentSug.path, 1)
             = ParseValue(CurrentSug.proposed_value)
       /\ \A q \in PathsOf(TreeBefore) \cup PathsOf(TreeAfter) :
             OtherPath(CurrentSug.path, q)
             => Lookup(TreeAfter, q, 1) = Lookup(TreeBefore, q, 1)

\* a modify has replaced the scalar item s.0 and the entry a.b next to the
\* sequence reads as before
C12_Witness ==
    /\ Applied
    /\ CurrentSug = Sug("modify", <<"s", "0">>, "false")
    /\ Lookup(TreeBefore, <<"s", "0">>, 1) = Scalar("p")
    /\ Lookup(TreeAfter, <<"s", "0">>, 1) = Scalar("false")
    /\ Lookup(TreeAfter, <<"a", "b">>, 1) = Scalar("true")

\* the terminal segment of the current suggestion, the path of its container,
\* and the container before and after the iteration
Terminal == CurrentSug.path[Len(CurrentSug.path)]
ParentPath == SubSeq(CurrentSug.path, 1, Len(CurrentSug.path) - 1)
ParentBefore == Lookup(TreeBefore, ParentPath, 1)
ParentAfter == Lookup(TreeAfter, ParentPath, 1)

\* a valid delete whose path resolved has been applied
DeleteApplied ==
    /\ Applied
    /\ CurrentSug.type = "delete"
    /\ ValidSuggestion(CurrentSug)
    /\ Lookup(TreeBefore, CurrentSug.path, 1) # Absent

\* C13 as stated: after a valid delete whose path resolved, re-resolving the
\* same path fails, for a mapping key and for a sequence index alike.
C13_DeletedPathAbsent ==
    DeleteApplied => Lookup(TreeAfter, CurrentSug.path, 1) = Absent

\* C13: after a valid delete whose path resolved, a terminal mapping key is
\* absent from its mapping; a terminal sequence index has its item removed and
\* the later items moved down by one, so that the path is absent afterwards
\* exactly when the index addressed the last item.
C13_DeleteRemovesEntry ==
    DeleteApplied =>
        /\ ParentBefore.kind = "map" =>
              /\ Lookup(TreeAfter, CurrentSug.path, 1) = Absent
              /\ KeyPos(ParentAfter.keys, Terminal) = 0
        /\ ParentBefore.kind = "seq" =>
              /\ Len(ParentAfter.kids) = Len(ParentBefore.kids) - 1
              /\ \A j \in 1..Len(ParentAfter.kids) :
                    ParentAfter.kids[j] =
                        IF j <= IntOf(Terminal)
                        THEN ParentBefore.kids[j]
                        ELSE ParentBefore.kids[j + 1]
              /\ (Lookup(TreeAfter, CurrentSug.path, 1) = Absent)
                    <=> (IntOf(Terminal) = Len(ParentBefore.kids) - 1)

\* item 0 of the two-item sequence s has been deleted and the path s.0 now
\* leads to the item that was s.1
C13_Witness ==
    /\ DeleteApplied
    /\ CurrentSug.path = <<"s", "0">>
    /\ Lookup(TreeBefore, <<"s", "1">>, 1) = Scalar("q")
    /\ Lookup(TreeAfter, <<"s", "0">>, 1) = Scalar("q")

\* C14: for a loadable text, the call with an empty suggestion list returns
\* the text itself (same trees, same layout), and calling again on the result
\* returns the result.
C14_EmptyBatchRoundTrip ==
    (/\ patch.pc = "done"
     /\ patch.selected_suggestions = <<>>
     /\ patch.original_yaml.layout # "invalid")
    => /\ patch.final_yaml_str = patch.original_yaml
       /\ apply_selected_suggestions(patch.final_yaml_str, <<>>)
             = patch.final_yaml_str

\* the sub-documents the call loaded
Loaded == YamlLoadAll(patch.original_yaml)

RECURSIVE PathFails(_, _, _)
PathFails(node, keys, i) ==
    IF node.kind = "map"
    THEN /\ i < Len(keys)
         /\ \/ KeyPos(node.keys, keys[i]) = 0
            \/ PathFails(node.kids[KeyPos(node.keys, keys[i])], keys, i + 1)
    ELSE IF node.kind = "seq"
    THEN \/ ~IsDigit(keys[i])
         \/ IntOf(keys[i]) >= Len(node.kids)
         \/ /\ i < Len(keys)
            /\ PathFails(node.kids[IntOf(keys[i]) + 1], keys, i + 1)
    ELSE TRUE

\* a suggestion that is bad for the tree it meets
BadSuggestion(tree, sug) ==
    \/ sug.type \notin {"modify", "add", "delete"}
    \/ PathFails(tree, sug.path, 1)

\* the batch without its j-th suggestion
Without(sugs, j) ==
    [k \in 1..(Len(sugs) - 1) |-> IF k < j THEN sugs[k] ELSE sugs[k + 1]]

\* C16: an iteration whose suggestion is bad for the tree it meets leaves
\* every sub-document exactly as it was and the loop goes on; the call then
\* returns what it returns for the batch without that suggestion.
C16_BadSuggestionIsNoOp ==
    /\ (Applied /\ BadSuggestion(TreeBefore, CurrentSug)) =>
          patch.docs = patch.prev
    /\ (patch.pc = "done" /\ Loaded # <<>>) =>
          \A j \in 1..Len(patch.selected_suggestions) :
             BadSuggestion(
                 ApplyAll(Loaded, SubSeq(patch.selected_suggestions, 1, j - 1),
                          1)[1],
                 patch.selected_suggestions[j])
             => patch.final_yaml_str =
                   apply_selected_suggestions(
                       patch.original_yaml,
                       Without(patch.selected_suggestions, j))

\* a batch of modify x.y (x missing) followed by delete a.b has returned: the
\* first left the tree alone, the second removed a.b
C16_Witness ==
    /\ patch.pc = "done"
    /\ Loaded = <<DocAB>>
    /\ patch.selected_suggestions =
          <<Sug("modify", <<"x", "y">>, "false"), Sug("delete", <<"a", "b">>, "")>>
    /\ YamlLoadAll(patch.final_yaml_str)[1] = Mapping(<<"a">>, <<Mapping(<<>>, <<>>)>>)

\* the keys of a mapping and the value it holds for a key
KeySet(m) == {m.keys[i] : i \in 1..Len(m.keys)}
ValueOf(m, k) == m.kids[KeyPos(m.keys, k)]

\* a valid add whose path resolved has been applied; its parsed value
AddApplied ==
    /\ Applied
    /\ CurrentSug.type = "add"
    /\ ValidSuggestion(CurrentSug)
    /\ ~PathFails(TreeBefore, CurrentSug.path, 1)
NewValue == ParseValue(CurrentSug.proposed_value)

\* the add is a merge: the container of the terminal step is a mapping and
\* the proposed value parses into a mapping
IsMerge == ParentBefore.kind = "map" /\ NewValue.kind = "map"

\* C24: after an add that is a merge, the keys of the container are its old
\* keys together with the proposed keys, every proposed key holds the
\* proposed value, and every other key holds its old value.
C24_AddMergesMapping ==
    (AddApplied /\ IsMerge) =>
        /\ ParentAfter.kind = "map"
        /\ KeySet(ParentAfter) = KeySet(ParentBefore) \cup KeySet(NewValue)
        /\ \A k \in KeySet(NewValue) :
              ValueOf(ParentAfter, k) = ValueOf(NewValue, k)
        /\ \A k \in KeySet(ParentBefore) \ KeySet(NewValue) :
              ValueOf(ParentAfter, k) = ValueOf(ParentBefore, k)

\* the mapping c: 1 has been merged into the container a, which held b and
\* a different c: b is kept, c is overwritten
C24_Witness ==
    /\ AddApplied
    /\ IsMerge
    /\ CurrentSug = Sug("add", <<"a", "b">>, "c: 1")
    /\ Lookup(TreeBefore, <<"a", "c">>, 1) = Scalar("true")
    /\ Lookup(TreeAfter, <<"a", "c">>, 1) = Scalar("1")
    /\ Lookup(TreeAfter, <<"a", "b">>, 1) = Scalar("true")

\* C25: after an add that is not a merge (the value is not a mapping, or the
\* container of the terminal step is a sequence and the index is in range),
\* re-reading the path gives the parsed proposed value.
C25_AddSetsTerminal ==
    (AddApplied /\ ~IsMerge) =>
        Lookup(TreeAfter, CurrentSug.path, 1) = NewValue

(* ------------------------- Suggestion parser -------------------------- *)
(* A generated text is the sequence of its lines, a line being [tag, val]:  *)
(*   "start" / "end"   the markers "[수정 제안 목록 시작]" / "[수정 제안 목록 끝]"  *)
(*   "num"             a numbered marker "(n)" on a line of its own         *)
(*   "type", "path", "orig", "prop", "reason"                               *)
(*                     a field line "[유형]: val", "[YAML 경로]: val",          *)
(*                     "[원본 값]: val", "[수정 제안]: val", "[사유]: val"        *)
(*   "plain"           any other line, val being its text ("" = blank line) *)
(* A parsed field value is the sequence of the lines it spans, <<>> being   *)
(* the empty string; a line taken over whole keeps its tag.                 *)

Line(tag, val) == [tag |-> tag, val |-> val]

IsBlank(l) == l.tag = "plain" /\ l.val = ""

\* str.strip() on a value: leading and trailing blank lines go
Strip(ls) ==
    LET nb == {i \in 1..Len(ls) : ~IsBlank(ls[i])}
    IN  IF nb = {} THEN <<>>
        ELSE SubSeq(ls, CHOOSE i \in nb : \A j \in nb : i <= j,
                        CHOOSE i \in nb : \A j \in nb : i >= j)

\* positions of the lines of ls with the given tag
TagAt(ls, tag) == {i \in 1..Len(ls) : ls[i].tag = tag}

FirstOf(S) == CHOOSE i \in S : \A j \in S : i <= j
LastOf(S) == CHOOSE i \in S : \A j \in S : i >= j

\* re.search(r"\[...시작\](.*?)\[...끝\]", llm_output, re.DOTALL): the first
\* start marker and the first end marker after it
ContentMatch(llm_output) ==
    /\ TagAt(llm_output, "start") # {}
    /\ \E e \in TagAt(llm_output, "end") :
          e > FirstOf(TagAt(llm_output, "start"))

\* content_match.group(1).strip()
Content(llm_output) ==
    LET st == FirstOf(TagAt(llm_output, "start"))
        en == FirstOf({e \in TagAt(llm_output, "end") : e > st})
    IN  Strip(SubSeq(llm_output, st + 1, en - 1))

\* the separators of re.split(r"\n*\s*\(\d+\)\s*\n", content): the numbered
\* markers that a newline follows, i.e. all but one on the last line
Separators(content) ==
    {i \in TagAt(content, "num") : i < Len(content)}

\* the n-th separator, 0 before the first, Len + 1 after the last
SeparatorNo(content, n) ==
    IF n = 0 THEN 0
    ELSE IF n > Cardinality(Separators(content)) THEN Len(content) + 1
    ELSE CHOOSE i \in Separators(content) :
            Cardinality({j \in Separators(content) : j < i}) = n - 1

\* suggestion_blocks: the pieces between the separators; the model writes
\* suggestion_blocks[i] of the code as SplitBlocks(content)[i + 1]
SplitBlocks(content) ==
    [b \in 1..(Cardinality(Separators(content)) + 1) |->
        SubSeq(content, SeparatorNo(content, b - 1) + 1,
                        SeparatorNo(content, b) - 1)]

\* pattern.search(block) for a one-line field pattern r"\[tag\]:\s*(.*)",
\* stripped: the rest of the first line with the tag; when that is empty,
\* \s* runs over the line end and (.*) takes the next line that is not blank
FieldValue(block, tag) ==
    IF TagAt(block, tag) = {} THEN <<>>
    ELSE LET at   == FirstOf(TagAt(block, tag))
             rest == {j \in (at + 1)..Len(block) : ~IsBlank(block[j])}
         IN  IF block[at].val # "" THEN <<Line("plain", block[at].val)>>
             ELSE IF rest = {} THEN <<>>
             ELSE <<block[FirstOf(rest)]>>

\* reason_pattern r"(?s)\[사유\]:\s*(.*)\Z", stripped: from the first reason
\* tag to the end of the block
ReasonValue(block) ==
    LET at == FirstOf(TagAt(block, "reason"))
    IN  Strip(<<Line("plain", block[at].val)>>
              \o SubSeq(block, at + 1, Len(block)))

\* proposal_pattern r"\[수정 제안\]:\s*([\s\S]*)\[사유\]", stripped: from the
\* first proposal tag to the last reason tag after it, "" when there is none
ProposalBeforeReason(block) ==
    IF TagAt(block, "prop") = {} THEN <<>>
    ELSE LET at     == FirstOf(TagAt(block, "prop"))
             closes == {r \in TagAt(block, "reason") : r > at}
         IN  IF closes = {} THEN <<>>
             ELSE Strip(<<Line("plain", block[at].val)>>
                        \o SubSeq(block, at + 1, LastOf(closes) - 1))

\* suggestion_item for block number i (the index enumerate gives)
SuggestionItem(i, block) ==
    LET reason_match == TagAt(block, "reason") # {}
        reason_raw   == IF reason_match THEN ReasonValue(block) ELSE <<>>
        proposal_raw == IF reason_match THEN ProposalBeforeReason(block)
                        ELSE FieldValue(block, "prop")
    IN  [id             |-> i,
         type           |-> IF TagAt(block, "type") # {}
                            THEN FieldValue(block, "type")
                            ELSE <<Line("plain", "add")>>,
         path           |-> FieldValue(block, "path"),
         original_value |-> FieldValue(block, "orig"),
         proposed_value |-> proposal_raw,
         reason         |-> IF reason_raw # <<>> THEN reason_raw
                            ELSE <<Line("plain", "N/A")>>]

\* the test of line 109
PassesValidity(item) ==
    /\ item.path # <<>>
    /\ (item.proposed_value # <<>> \/ item.type = <<Line("plain", "delete")>>)

\* blocks a generated text is made of
BlockPool ==
    { <<Line("type", "modify"), Line("path", "a.b"), Line("orig", "true"),
        Line("prop", "false"), Line("reason", "r")>>,
      <<Line("type", "delete"), Line("path", "a.b"), Line("reason", "r")>>,
      <<Line("path", "a.b"), Line("prop", "false")>>,
      <<Line("type", "modify"), Line("prop", "false"), Line("reason", "r")>>,
      <<Line("type", "modify"), Line("path", "a.b"), Line("reason", "r")>>,
      <<Line("type", "modify"), Line("path", "a.b"), Line("prop", "c: 1"),
        Line("plain", "d: 2")>>,
      <<Line("type", "modify"), Line("path", "a.b"), Line("prop", "c: 1"),
        Line("plain", "d: 2"), Line("reason", "r")>>,
      <<Line("type", "modify"), Line("path", ""), Line("orig", "x"),
        Line("prop", "false"), Line("reason", "r")>>,
      <<Line("plain", "t")>>,
      <<>> }

\* the numbered blocks one after the other, each behind its marker "(n)"
RECURSIVE Numbered(_)
Numbered(bs) ==
    IF bs = <<>> THEN <<>>
    ELSE <<Line("num", "1")>> \o Head(bs) \o Numbered(Tail(bs))

\* generated texts: a body of numbered blocks with both markers around it,
\* with one or both markers missing, or with the end marker first; a line of
\* prose comes before and after
GeneratedTexts ==
    UNION { LET body == Numbered(bs)
                pre  == <<Line("plain", "t")>>
            IN  { pre \o <<Line("start", "")>> \o body \o <<Line("end", "")>> \o pre,
                  pre \o body \o <<Line("end", "")>> \o pre,
                  pre \o <<Line("start", "")>> \o body \o pre,
                  pre \o body \o pre,
                  pre \o <<Line("end", "")>> \o body \o <<Line("start", "")>> \o pre }
            : bs \in UNION { [1..n -> BlockPool] : n \in 0..MaxBlocks } }

\* parse_line_suggestions(llm_output) is about to run
InitParse ==
    /\ \E text \in GeneratedTexts :
          parse = [pc |-> "search", llm_output |-> text, blocks |-> <<>>,
                   i |-> 0, suggestions |-> <<>>]
    /\ in_session = FALSE
    /\ line_suggestions = <<>>
    /\ original_yaml = NoYaml
    /\ review_index = 0
    /\ yaml_history = <<>>
    /\ accepted_patches = {}
    /\ messages = <<>>
    /\ decisions = <<>>
    /\ last = NoEvent
    /\ last2 = NoEvent
    /\ runs = Idle
    /\ patch = Idle
    /\ pipe = Idle
    /\ cons = Idle

\* a marker search that takes the text to its end when the end marker is
\* missing
FindMarkers_OpenEnded ==
    /\ parse.pc = "search"
    /\ IF TagAt(parse.llm_output, "start") = {}
       THEN parse' = [parse EXCEPT !.pc = "done"]
       ELSE parse' = [parse EXCEPT
                        !.pc = "loop",
                        !.blocks = SplitBlocks(
                            Content(parse.llm_output \o <<Line("end", "")>>))]
    /\ UNCHANGED <<sessionVars, runs, patch, pipe, cons>>

\* lines 57-67: without a marked section the function returns []; otherwise
\* the section is split into blocks
FindMarkers ==
    /\ parse.pc = "search"
    /\ IF ~ContentMatch(parse.llm_output)
       THEN parse' = [parse EXCEPT !.pc = "done"]
       ELSE parse' = [parse EXCEPT
                        !.pc = "loop",
                        !.blocks = SplitBlocks(Content(parse.llm_output))]
    /\ UNCHANGED <<sessionVars, runs, patch, pipe, cons>>

\* a block loop that ends at the first block failing the validity test
ParseBlock_StopsAtInvalid ==
    /\ parse.pc = "loop"
    /\ parse.i < Len(parse.blocks)
    /\ LET block == parse.blocks[parse.i + 1]
           item  == SuggestionItem(parse.i, block)
       IN  parse' =
             IF Strip(block) # <<>> /\ ~PassesValidity(item)
             THEN [parse EXCEPT !.i = Len(parse.blocks)]
             ELSE [parse EXCEPT
                     !.i = parse.i + 1,
                     !.suggestions =
                         IF Strip(block) # <<>> THEN Append(@, item) ELSE @]
    /\ UNCHANGED <<sessionVars, runs, patch, pipe, cons>>

\* one iteration of `for i, block in enumerate(suggestion_blocks)`: a blank
\* block is passed over, any other block gives an item that is appended when
\* it passes the validity test
ParseBlock ==
    /\ parse.pc = "loop"
    /\ parse.i < Len(parse.blocks)
    /\ LET block == parse.blocks[parse.i + 1]
           item  == SuggestionItem(parse.i, block)
       IN  parse' = [parse EXCEPT
                       !.i = parse.i + 1,
                       !.suggestions =
                           IF Strip(block) # <<>> /\ PassesValidity(item)
                           THEN Append(@, item)
                           ELSE @]
    /\ UNCHANGED <<sessionVars, runs, patch, pipe, cons>>

\* return suggestions
ReturnSuggestions ==
    /\ parse.pc = "loop"
    /\ parse.i = Len(parse.blocks)
    /\ parse' = [parse EXCEPT !.pc = "done"]
    /\ UNCHANGED <<sessionVars, runs, patch, pipe, cons>>

NextParse == FindMarkers \/ ParseBlock \/ ReturnSuggestions

SpecParse == InitParse /\ [][NextParse]_vars

\* C17: when the text lacks the start marker or the end marker, the parser
\* returns the empty list: it never enters the block loop and ends with no
\* suggestion.
C17_NoMarkersNoSuggestions ==
    (/\ parse.pc # "search"
     /\ \/ TagAt(parse.llm_output, "start") = {}
        \/ TagAt(parse.llm_output, "end") = {})
    => /\ parse.pc = "done"
       /\ parse.suggestions = <<>>

\* a text with the start marker and a well-formed block but no end marker
\* has been parsed to the empty list
C17_Witness ==
    /\ parse.pc = "done"
    /\ TagAt(parse.llm_output, "start") # {}
    /\ TagAt(parse.llm_output, "end") = {}
    /\ \E i \in 1..Len(parse.llm_output) :
          parse.llm_output[i] = Line("path", "a.b")
    /\ parse.suggestions = <<>>

\* the items returned so far that came from block number i
ReturnedFor(i) ==
    {k \in 1..Len(parse.suggestions) : parse.suggestions[k].id = i}

\* C18: of the blocks gone through, exactly those that are not blank and whose
\* item passes the validity test are in the returned list, each once, as the
\* item of that block alone and in block order: every returned suggestion has
\* a path and (a proposed value or type delete), and the ids increase strictly.
C18_ValidBlocksInOrder ==
    parse.pc \in {"loop", "done"} =>
        /\ \A k \in 1..Len(parse.suggestions) :
              /\ parse.suggestions[k].path # <<>>
              /\ \/ parse.suggestions[k].proposed_value # <<>>
                 \/ parse.suggestions[k].type = <<Line("plain", "delete")>>
        /\ \A k, m \in 1..Len(parse.suggestions) :
              k < m => parse.suggestions[k].id < parse.suggestions[m].id
        /\ \A i \in 0..(parse.i - 1) :
              LET block == parse.blocks[i + 1]
                  item  == SuggestionItem(i, block)
              IN  IF Strip(block) # <<>> /\ PassesValidity(item)
                  THEN \E k \in ReturnedFor(i) :
                          /\ ReturnedFor(i) = {k}
                          /\ parse.suggestions[k] = item
                  ELSE ReturnedFor(i) = {}

\* a text whose first numbered block has no path and whose second is well
\* formed has been parsed: only the second block is returned, as suggestion 2
C18_Witness ==
    /\ parse.pc = "done"
    /\ Len(parse.blocks) = 3
    /\ TagAt(parse.blocks[2], "prop") # {}
    /\ TagAt(parse.blocks[2], "path") = {}
    /\ Len(parse.suggestions) = 1
    /\ parse.suggestions[1].id = 2
    /\ parse.suggestions[1].path = <<Line("plain", "a.b")>>

\* the text of a block from its proposed-value tag up to line `upto`, trimmed
ProposalText(block, upto) ==
    LET at == FirstOf(TagAt(block, "prop"))
    IN  Strip(<<Line("plain", block[at].val)>> \o SubSeq(block, at + 1, upto))

\* C26: a returned suggestion whose block has a proposed-value tag and no
\* reason tag has as proposed_value the whole text from that tag to the end
\* of the block, and the sentinel N/A as reason; when a reason tag follows the
\* proposed-value tag, the proposed_value ends where the reason tag begins.
C26_ProposalExtent ==
    \A k \in 1..Len(parse.suggestions) :
       LET block == parse.blocks[parse.suggestions[k].id + 1]
       IN  TagAt(block, "prop") # {} =>
             IF TagAt(block, "reason") = {}
             THEN /\ parse.suggestions[k].proposed_value
                        = ProposalText(block, Len(block))
                  /\ parse.suggestions[k].reason = <<Line("plain", "N/A")>>
             ELSE FirstOf(TagAt(block, "reason")) > FirstOf(TagAt(block, "prop"))
                  => parse.suggestions[k].proposed_value
                        = ProposalText(block,
                                       FirstOf(TagAt(block, "reason")) - 1)

(* ------------------------- Analysis pipeline -------------------------- *)
(* src/main.py starts prepare_analysis (src/rag_pipeline.py) as a background *)
(* task, which runs get_trivy_and_rag_analysis (src/db_handler_es.py); the   *)
(* /generate-answer handler waits for the task and answers.                  *)
(* main.py passes mode=... to prepare_analysis and generate_analysis_answer, *)
(* whose definitions in src/rag_pipeline.py take no such parameter, so in    *)
(* the build as it stands both calls raise TypeError.  pipe.accepts_mode     *)
(* tells the two builds apart: FALSE is the source as it stands, TRUE is the *)
(* same function bodies behind signatures that take the keyword.             *)

\* the polls of the wait loop, `for _ in range(90)`
PollLimit == 90

\* what run_trivy_scan returns: None (the scanner failed twice or its output
\* did not parse), a JSON tree without the key 'Results', or a tree whose
\* 'Results' is a list of result groups, each a list of failing rules
TrivyOutcomes ==
    { [kind |-> "none", Results |-> <<>>],
      [kind |-> "no_results_key", Results |-> <<>>] }
    \cup { [kind |-> "json", Results |-> groups] :
             groups \in { <<>>, << <<>> >>, << <<>>, <<>> >>,
                          << <<"r1">> >>, << <<"r1", "r2">> >>,
                          << <<"r1">>, <<"r1">> >>, << <<>>, <<"r2">> >> } }

\* what run_kics_scan returns: None, a tree without 'queries', a tree with an
\* empty 'queries' list, a tree with findings
KicsOutcomes == {"none", "no_queries_key", "zero", "findings"}

\* extract_queries_from_trivy_results(trivy_json): one query per failing rule
\* of every result group, duplicates merged; nothing for None or for a tree
\* without 'Results'.  A query is written as the rule it was built from.
extract_queries_from_trivy_results(trivy_json) ==
    IF trivy_json.kind # "json" THEN {}
    ELSE UNION { { trivy_json.Results[g][r] :
                     r \in 1..Len(trivy_json.Results[g]) } :
                   g \in 1..Len(trivy_json.Results) }

\* parse_kics_results_to_text(kics_json) is a non-empty report
KicsReported(kics_json) == kics_json = "findings"

\* the values get_trivy_and_rag_analysis returns: 0, {"error": ...}, or a
\* dict with status / summary / data (data: the queries that got a document)
AnalysisZero == [ret |-> "0", has_error |-> FALSE, status |-> "", data |-> {}]
AnalysisError == [ret |-> "dict", has_error |-> TRUE, status |-> "", data |-> {}]
AnalysisStatus(status, data) ==
    [ret |-> "dict", has_error |-> FALSE, status |-> status, data |-> data]
NoAnalysis == [ret |-> "none", has_error |-> FALSE, status |-> "", data |-> {}]

\* the values prepare_analysis returns: {"status": "no_issues",
\* "prepared_data": None}, {"error": ...}, {"status": "success",
\* "prepared_data": {...}}
PrepareResultOf(analysis_data) ==
    IF analysis_data.ret = "0"
    THEN [has_error |-> FALSE, status |-> "no_issues", prepared_data |-> "None"]
    ELSE IF analysis_data.has_error
    THEN [has_error |-> TRUE, status |-> "", prepared_data |-> "None"]
    ELSE [has_error |-> FALSE, status |-> "success", prepared_data |-> "dict"]
NoResult == [has_error |-> FALSE, status |-> "", prepared_data |-> "None"]

\* no result text has been made for the request
NoAnswer == [text |-> "none", banner |-> FALSE]

InitPipe ==
    /\ \E accepts_mode \in BOOLEAN :
          pipe = [accepts_mode |-> accepts_mode,
                  bg |-> "none",
                  trivy_results |-> [kind |-> "not_run", Results |-> <<>>],
                  trivy_queries |-> {},
                  kics_results |-> "not_run",
                  analysis_data |-> NoAnalysis,
                  prepare_result |-> NoResult,
                  job |-> [status |-> "absent", result |-> NoResult],
                  req |-> "none",
                  req_task |-> "task",
                  requests |-> 0,
                  polls |-> 0,
                  response |-> "none",
                  invocations |-> 0,
                  responses |-> <<>>,
                  result |-> NoAnswer,
                  retrieval_calls |-> 0,
                  generation_calls |-> 0]
    /\ in_session = FALSE
    /\ line_suggestions = <<>>
    /\ original_yaml = NoYaml
    /\ review_index = 0
    /\ yaml_history = <<>>
    /\ accepted_patches = {}
    /\ messages = <<>>
    /\ decisions = <<>>
    /\ last = NoEvent
    /\ last2 = NoEvent
    /\ runs = Idle
    /\ patch = Idle
    /\ parse = Idle
    /\ cons = Idle

PipeFrame == UNCHANGED <<sessionVars, runs, patch, parse, cons>>

\* prepare_analysis_endpoint: the job is entered as processing and the
\* background task is queued
PrepareAnalysisEndpoint ==
    /\ pipe.job.status = "absent"
    /\ pipe' = [pipe EXCEPT !.job.status = "processing", !.bg = "queued"]
    /\ PipeFrame

\* run_prepare_in_background calls prepare_analysis(yaml_content, mode=mode)
CallPrepare ==
    /\ pipe.bg = "queued"
    /\ pipe' = [pipe EXCEPT !.bg = IF pipe.accepts_mode THEN "scan" ELSE "raised"]
    /\ PipeFrame

\* get_trivy_and_rag_analysis, step 1: run_trivy_scan and
\* extract_queries_from_trivy_results
TrivyScan ==
    /\ pipe.bg = "scan"
    /\ \E out \in TrivyOutcomes :
          pipe' = [pipe EXCEPT
                     !.trivy_results = out,
                     !.trivy_queries = extract_queries_from_trivy_results(out),
                     !.bg = IF extract_queries_from_trivy_results(out) # {}
                            THEN "retrieve" ELSE "kics"]
    /\ PipeFrame

\* the branch `if trivy_queries`: initialize_elasticsearch, then one
\* ENSEMBLE_RETRIEVER.invoke per query; a query whose call raises or returns
\* nothing adds no result
Retrieve ==
    /\ pipe.bg = "retrieve"
    /\ \E es_ok \in BOOLEAN, hits \in SUBSET pipe.trivy_queries :
          pipe' = [pipe EXCEPT
                     !.analysis_data =
                         IF es_ok THEN AnalysisStatus("TRIVY_DETECTED", hits)
                         ELSE AnalysisError,
                     !.retrieval_calls =
                         IF es_ok THEN @ + Cardinality(pipe.trivy_queries)
                         ELSE @,
                     !.bg = "prepare"]
    /\ PipeFrame

\* the branch without Trivy queries: run_kics_scan and its three outcomes
KicsScan ==
    /\ pipe.bg = "kics"
    /\ \E out \in KicsOutcomes :
          pipe' = [pipe EXCEPT
                     !.kics_results = out,
                     !.analysis_data =
                         IF out = "none" THEN AnalysisStatus("KICS_ERROR", {})
                         ELSE IF KicsReported(out)
                         THEN AnalysisStatus("KICS_DETECTED", {})
                         ELSE AnalysisZero,
                     !.bg = "prepare"]
    /\ PipeFrame

\* prepare_analysis turns analysis_data into its result
PrepareResult ==
    /\ pipe.bg = "prepare"
    /\ pipe' = [pipe EXCEPT
                  !.prepare_result = PrepareResultOf(pipe.analysis_data),
                  !.bg = "store"]
    /\ PipeFrame

\* run_prepare_in_background stores the outcome: completed with the result,
\* or error when prepare_analysis raised
StoreResult ==
    /\ pipe.bg \in {"store", "raised"}
    /\ pipe' = [pipe EXCEPT
                  !.job = IF pipe.bg = "store"
                          THEN [status |-> "completed",
                                result |-> pipe.prepare_result]
                          ELSE [status |-> "error", result |-> NoResult],
                  !.bg = "ended"]
    /\ PipeFrame

\* the status a request reads from job_results: an unknown task id has no
\* entry, so job_results.get gives None on every pass
SeenStatus ==
    IF pipe.req_task = "task" THEN pipe.job.status ELSE "absent"

\* a /generate-answer request arrives, for the task or for an id that was
\* never issued
GenerateRequest ==
    /\ pipe.req \in {"none", "answered"}
    /\ pipe.requests < MaxRequests
    /\ \E task \in {"task", "unknown"} :
          /\ task = "task" => pipe.job.status # "absent"
          /\ pipe' = [pipe EXCEPT !.req = "polling",
                                  !.req_task = task,
                                  !.requests = @ + 1,
                                  !.polls = 0,
                                  !.response = "none",
                                  !.invocations = 0,
                                  !.responses = <<>>,
                                  !.result = NoAnswer]
    /\ PipeFrame

\* one pass of the wait loop that finds the job unfinished and sleeps
Poll ==
    /\ pipe.req = "polling"
    /\ pipe.polls < PollLimit
    /\ SeenStatus \notin {"completed", "error"}
    /\ pipe' = [pipe EXCEPT !.polls = @ + 1]
    /\ PipeFrame

\* a handler that leaves the loop only on a finished job
Answer_WaitsForFinal ==
    /\ pipe.req = "polling"
    /\ SeenStatus \in {"completed", "error"}
    /\ IF SeenStatus # "completed"
       THEN pipe' = [pipe EXCEPT !.req = "answered",
                                 !.response = "prepare_failed"]
       ELSE IF pipe.job.result.prepared_data = "None"
       THEN pipe' = [pipe EXCEPT !.req = "answered", !.response = "no_issues"]
       ELSE pipe' = [pipe EXCEPT !.req = "generating"]
    /\ PipeFrame

\* a handler that takes any finished job for a completed one
Answer_AnyFinalStatus ==
    /\ pipe.req = "polling"
    /\ pipe.polls = PollLimit \/ SeenStatus \in {"completed", "error"}
    /\ IF SeenStatus \notin {"completed", "error"}
       THEN pipe' = [pipe EXCEPT !.req = "answered",
                                 !.response = "prepare_failed"]
       ELSE IF pipe.job.result.prepared_data = "None"
       THEN pipe' = [pipe EXCEPT !.req = "answered", !.response = "no_issues"]
       ELSE pipe' = [pipe EXCEPT !.req = "generating"]
    /\ PipeFrame

\* the handler leaves the loop and answers: an error unless the job is
\* completed, the no-issues message when prepared_data is None, otherwise
\* it enters generate_analysis_answer
Answer ==
    /\ pipe.req = "polling"
    /\ pipe.polls = PollLimit \/ SeenStatus \in {"completed", "error"}
    /\ IF SeenStatus # "completed"
       THEN pipe' = [pipe EXCEPT !.req = "answered",
                                 !.response = "prepare_failed"]
       ELSE IF pipe.job.result.prepared_data = "None"
       THEN pipe' = [pipe EXCEPT !.req = "answered", !.response = "no_issues"]
       ELSE pipe' = [pipe EXCEPT !.req = "generating"]
    /\ PipeFrame

\* the texts the generation capability is taken to answer with: one without a
\* forbidden pattern and one for each way of matching one
Responses ==
    {"clean", "localhost_docker_default", "seccomp_docker_default",
     "inline_docker_default", "runtime_vuln", "port_1024"}

\* some forbidden pattern is found in the text
needs_retry(text) == text # "clean"

\* docker/default under a seccompProfile line becomes RuntimeDefault and the
\* port range wording is reversed; every other text is left as it is
sanitize_output(text) ==
    CASE text = "seccomp_docker_default" -> "seccomp_runtime_default"
      [] text = "port_1024" -> "port_below_1024"
      [] OTHER -> text

\* the result text: the warning banner is put in front when a docker/default
\* type or the RuntimeDefault wording is still there
post_validate(text) ==
    [text |-> text,
     banner |-> text \in {"inline_docker_default", "runtime_vuln", "port_1024"}]

\* the function returns the result made from the response it holds
ReturnResult(p, response) ==
    [p EXCEPT !.req = "answered",
              !.response = "answer",
              !.result = post_validate(sanitize_output(response))]

\* the function returns the error dict of its except branch
ReturnError(p) ==
    [p EXCEPT !.req = "answered", !.response = "generation_error"]

\* a first call whose answer is returned without the forbidden-pattern test
InvokeFirst_ReturnsAny ==
    /\ pipe.req = "generating"
    /\ LET called == [pipe EXCEPT !.generation_calls = @ + 1,
                                  !.invocations = @ + 1]
       IN  \/ pipe' = ReturnError(called)
           \/ \E response \in Responses :
                 pipe' = ReturnResult(
                            [called EXCEPT !.responses = Append(@, response)],
                            response)
    /\ PipeFrame

\* the first call of the chain: it raises, or it answers; an answer with a
\* forbidden pattern leads to the retry, any other one is returned
InvokeFirst ==
    /\ pipe.req = "generating"
    /\ LET called == [pipe EXCEPT !.generation_calls = @ + 1,
                                  !.invocations = @ + 1]
       IN  \/ pipe' = ReturnError(called)
           \/ \E response \in Responses :
                 LET got == [called EXCEPT !.responses = Append(@, response)]
                 IN  pipe' = IF needs_retry(response)
                             THEN [got EXCEPT !.req = "retrying"]
                             ELSE ReturnResult(got, response)
    /\ PipeFrame

\* the second call, with the correction hint: it raises, or its answer is
\* returned whatever it holds
InvokeRetry ==
    /\ pipe.req = "retrying"
    /\ LET called == [pipe EXCEPT !.generation_calls = @ + 1,
                                  !.invocations = @ + 1]
       IN  \/ pipe' = ReturnError(called)
           \/ \E response \in Responses :
                 pipe' = ReturnResult(
                            [called EXCEPT !.responses = Append(@, response)],
                            response)
    /\ PipeFrame

NextPipe ==
    \/ PrepareAnalysisEndpoint
    \/ CallPrepare
    \/ TrivyScan
    \/ Retrieve
    \/ KicsScan
    \/ PrepareResult
    \/ StoreResult
    \/ GenerateRequest
    \/ Poll
    \/ Answer
    \/ InvokeFirst
    \/ InvokeRetry

SpecPipe == InitPipe /\ [][NextPipe]_vars

\* the handler is a coroutine of the event loop: a sleep of one second ends
\* and the code after the loop runs, so its two steps are taken when they
\* stay possible; nothing is assumed of the background task
SpecPipeLive ==
    /\ InitPipe
    /\ [][NextPipe]_vars
    /\ WF_vars(Poll)
    /\ WF_vars(Answer)

\* the scanner output has the consumed shape and every failing-rule list of
\* it is empty
ZeroFailingRules ==
    /\ pipe.trivy_results.kind = "json"
    /\ \A g \in 1..Len(pipe.trivy_results.Results) :
          pipe.trivy_results.Results[g] = <<>>

\* the scan has been made / prepare_analysis has returned / the request has
\* been answered from a completed job
Scanned == pipe.trivy_results.kind # "not_run"
Prepared == Scanned /\ pipe.bg \in {"store", "ended"}
AnsweredCompleted ==
    /\ pipe.req = "answered"
    /\ pipe.response \in {"no_issues", "answer", "generation_error"}

\* C19: when every failing-rule list of the scanner output is empty, the
\* query set is empty, prepare_analysis ends in no_issues, the answer to a
\* completed job is the no-issues message, and neither the retriever nor the
\* generation step is ever called.
C19_ZeroFindingsShortCircuit ==
    (Scanned /\ ZeroFailingRules) =>
        /\ pipe.trivy_queries = {}
        /\ pipe.retrieval_calls = 0
        /\ pipe.generation_calls = 0
        /\ Prepared => pipe.prepare_result.status = "no_issues"
        /\ AnsweredCompleted => pipe.response = "no_issues"

\* the scan failed: nothing came back, or a tree without the results key
ScanFailed ==
    pipe.trivy_results.kind \in {"none", "no_results_key"}

\* C20: after a failed or malformed scan no layer gives the zero-findings
\* outcome: the analysis does not return 0, prepare_analysis does not return
\* no_issues, and the answer is never the no-issues message.
C20_ScanFailureIsNotNoIssues ==
    (Scanned /\ ScanFailed) =>
        /\ pipe.analysis_data.ret # "0"
        /\ pipe.prepare_result.status # "no_issues"
        /\ pipe.response # "no_issues"

(* -------------------- Accept with a failed patch call ------------------ *)

\* the latest request was an Accept whose patch response had no final_yaml
AcceptFailed == last.click = "accept" /\ last.notice = "error"

\* C27: after an Accept whose patch call failed, the history and the cursor
\* are what they were when the button was clicked: nothing is pushed, the
\* cursor is not advanced, the session is still reviewing the same
\* suggestion, and len(yaml_history) = review_index + 1.
C27_FailedAcceptKeepsState ==
    AcceptFailed =>
        /\ yaml_history = last.yaml_history
        /\ review_index = last.review_index
        /\ Reviewing
        /\ Len(decisions) = review_index
        /\ Len(yaml_history) = review_index + 1

\* the patch call of an Accept failed after one suggestion had been accepted:
\* the second suggestion is still the current one
C27_Witness ==
    /\ AcceptFailed
    /\ last2.click = "accept"
    /\ last2.notice = "success"
    /\ review_index = 1
    /\ Len(yaml_history) = 2

(* ------------------- task status and answering ------------------------ *)

\* the entry of the task in job_results changes only when it is created as
\* processing or when a processing task is completed or put in error
JobStatusMoves ==
    pipe'.job # pipe.job =>
        \/ pipe.job.status = "absent" /\ pipe'.job.status = "processing"
        \/ /\ pipe.job.status = "processing"
           /\ pipe'.job.status \in {"completed", "error"}

\* the request is in or past the generation step
Generating ==
    pipe.req \in {"generating", "retrying"} \/ pipe.invocations > 0

\* generation is entered only for the issued task, seen completed with
\* prepared data
GeneratesOnlyCompleted ==
    Generating =>
        /\ pipe.req_task = "task"
        /\ pipe.job.status = "completed"
        /\ pipe.job.result.prepared_data = "dict"

\* a request for an unknown id, or answered while the task is processing or
\* in error, got the pre-analysis error and made no generation call
ErrorWithoutGenerating ==
    ( /\ pipe.req = "answered"
      /\ \/ pipe.req_task = "unknown"
         \/ pipe.job.status \in {"processing", "error"} )
    => pipe.response = "prepare_failed" /\ pipe.invocations = 0

\* C28: in every interleaving of the background task and the requests, the
\* task status moves only from processing to completed or to error and
\* never changes afterwards; the generation step is made only for a task
\* seen completed with prepared data; an unknown id, a task still
\* processing and a task in error get an error result without generation
C28_StatusMonotoneAndGuardedGeneration ==
    /\ [][JobStatusMoves]_vars
    /\ [](GeneratesOnlyCompleted /\ ErrorWithoutGenerating)

\* a second request for the completed task has been answered by generation
\* after the status was set once
C28_Witness ==
    /\ pipe.requests = 2
    /\ pipe.req = "answered"
    /\ pipe.req_task = "task"
    /\ pipe.job.status = "completed"
    /\ pipe.invocations > 0
    /\ pipe.response = "answer"

\* a request was answered with the error while the task was in error
C28_ErrorWitness ==
    /\ pipe.req = "answered"
    /\ pipe.req_task = "task"
    /\ pipe.job.status = "error"
    /\ pipe.response = "prepare_failed"

\* the wait loop has made at most PollLimit passes
PollsBounded == pipe.polls <= PollLimit

\* a pass that sleeps is made only on a status that is not final
SleepsOnlyUnfinished ==
    pipe'.polls > pipe.polls =>
        /\ pipe.req = "polling"
        /\ SeenStatus \notin {"completed", "error"}

\* a request answered without a completed task got the pre-analysis error
UnfinishedGetsError ==
    pipe.req = "answered" /\ SeenStatus # "completed"
    => pipe.response = "prepare_failed"

\* C29: a generate-answer request always leaves its wait loop: it checks the
\* status at most PollLimit (90) times, sleeps only while the status is
\* neither completed nor error, and when the task does not reach completed
\* it answers with the pre-analysis error
C29_WaitTerminates ==
    /\ [](PollsBounded /\ UnfinishedGetsError)
    /\ [][SleepsOnlyUnfinished]_vars
    /\ (pipe.req = "polling") ~> (pipe.req # "polling")

\* a request has used every pass on a task still processing and was given
\* the pre-analysis error
C29_Witness ==
    /\ pipe.req = "answered"
    /\ pipe.req_task = "task"
    /\ pipe.polls = PollLimit
    /\ pipe.job.status = "processing"
    /\ pipe.response = "prepare_failed"

(* --------------------- generation and its retry ----------------------- *)

\* generate_analysis_answer has returned for the request
Generated == pipe.req = "answered" /\ pipe.invocations > 0

\* the chain has been called once or twice, and each call has raised or
\* given a response
CallsBounded ==
    /\ pipe.invocations <= 2
    /\ Len(pipe.responses) <= pipe.invocations
    /\ pipe.req = "retrying" =>
          /\ pipe.invocations = 1
          /\ Len(pipe.responses) = 1
          /\ needs_retry(pipe.responses[1])

\* the second call was made exactly when the first one gave a response with
\* a forbidden pattern
RetryIffForbidden ==
    Generated =>
        ( pipe.invocations = 2
          <=> Len(pipe.responses) >= 1 /\ needs_retry(pipe.responses[1]) )

\* the result is made from the last response, and a call that raised gave
\* the error result
AnswerFromLastResponse ==
    Generated =>
        IF Len(pipe.responses) = pipe.invocations
        THEN /\ pipe.response = "answer"
             /\ pipe.result =
                   post_validate(sanitize_output(
                       pipe.responses[Len(pipe.responses)]))
        ELSE /\ pipe.response = "generation_error"
             /\ pipe.result = NoAnswer

\* C30: generate_analysis_answer calls the generation capability once, and a
\* second time exactly when the first response matches a forbidden pattern;
\* it makes no third call, the answer is made from the last response, and a
\* call that raises gives an error result
C30_OneRetryAtMost ==
    CallsBounded /\ RetryIffForbidden /\ AnswerFromLastResponse

\* the first response matched a pattern and the second, which still matches
\* one, was returned under the warning banner
C30_Witness ==
    /\ Generated
    /\ pipe.invocations = 2
    /\ Len(pipe.responses) = 2
    /\ needs_retry(pipe.responses[2])
    /\ pipe.response = "answer"
    /\ pipe.result.banner

\* the retry raised and the request got the error result
C30_RaiseWitness ==
    /\ Generated
    /\ pipe.invocations = 2
    /\ Len(pipe.responses) = 1
    /\ pipe.response = "generation_error"

(* ------------------------ Evidence retrieval -------------------------- *)
(* The source has two retrieval loops over the queries of a scan:           *)
(*   "es"      get_trivy_and_rag_analysis in src/db_handler_es.py, the loop *)
(*             behind /prepare-analysis: one entry of rag_results per query *)
(*             that got a document                                          *)
(*   "chroma"  run_trivy_based_retriever in src/db_handler.py: the dict     *)
(*             unique_docs_with_queries keyed by page_content               *)
(* A query is written as its rank in the sort order of the query strings.   *)
(* An evidence record is [content, queries]; a rag_results entry, which has *)
(* one query, is the record with the one-element query list.                *)

Queries == 1..MaxQueries

\* what the retriever does for one query: it raises, returns no document,
\* or returns documents the first of which has the given page_content
RetrieveOutcomes == {"raise", "none", "d1", "d2"}

\* list(set(queries)): the queries in any order, each once
QueryLists ==
    { qs \in UNION { [1..n -> Queries] : n \in 1..MaxQueries } :
        \A i, j \in 1..Len(qs) : i # j => qs[i] # qs[j] }

\* position of the record with the given content, 0 when there is none
\* (doc_content_key in unique_docs_with_queries)
RecordPos(records, content) ==
    IF \E k \in 1..Len(records) : records[k].content = content
    THEN CHOOSE k \in 1..Len(records) : records[k].content = content
    ELSE 0

\* the body of the loop of get_trivy_and_rag_analysis for a query whose
\* retriever call did out: a document is appended to rag_results, an
\* exception or an empty list adds nothing
EsStep(records, q, out) ==
    IF out \in {"raise", "none"} THEN records
    ELSE Append(records, [content |-> out, queries |-> <<q>>])

\* the body of the loop of run_trivy_based_retriever for a query whose
\* retriever call returned out: a new content gets a record, a known content
\* gets the query appended
ChromaStep(records, q, out) ==
    IF out = "none" THEN records
    ELSE IF RecordPos(records, out) = 0
    THEN Append(records, [content |-> out, queries |-> <<q>>])
    ELSE [records EXCEPT ![RecordPos(records, out)].queries = Append(@, q)]

InitCons ==
    /\ \E impl \in {"es", "chroma"}, qs \in QueryLists,
          retrieve \in [Queries -> RetrieveOutcomes] :
          cons = [pc |-> "loop", impl |-> impl, security_queries |-> qs,
                  retrieve |-> retrieve, i |-> 0, records |-> <<>>]
    /\ in_session = FALSE
    /\ line_suggestions = <<>>
    /\ original_yaml = NoYaml
    /\ review_index = 0
    /\ yaml_history = <<>>
    /\ accepted_patches = {}
    /\ messages = <<>>
    /\ decisions = <<>>
    /\ last = NoEvent
    /\ last2 = NoEvent
    /\ runs = Idle
    /\ patch = Idle
    /\ parse = Idle
    /\ pipe = Idle

ConsFrame == UNCHANGED <<sessionVars, runs, patch, parse, pipe>>

\* one iteration of `for q in trivy_queries` (db_handler_es.py)
RetrieveEs ==
    /\ cons.pc = "loop"
    /\ cons.impl = "es"
    /\ cons.i < Len(cons.security_queries)
    /\ LET q == cons.security_queries[cons.i + 1]
       IN  cons' = [cons EXCEPT
                      !.i = @ + 1,
                      !.records = EsStep(@, q, cons.retrieve[q])]
    /\ ConsFrame

\* one iteration of `for i, query in enumerate(security_queries, 1)`
\* (db_handler.py); an exception of retriever.invoke leaves the loop for the
\* handler around the whole function, which prints and returns
RetrieveChroma ==
    /\ cons.pc = "loop"
    /\ cons.impl = "chroma"
    /\ cons.i < Len(cons.security_queries)
    /\ LET q == cons.security_queries[cons.i + 1]
       IN  IF cons.retrieve[q] = "raise"
           THEN cons' = [cons EXCEPT !.pc = "aborted", !.records = <<>>]
           ELSE cons' = [cons EXCEPT
                           !.i = @ + 1,
                           !.records = ChromaStep(@, q, cons.retrieve[q])]
    /\ ConsFrame

\* the loop is over: rag_results / list(unique_docs_with_queries.values())
RetrievalDone ==
    /\ cons.pc = "loop"
    /\ cons.i = Len(cons.security_queries)
    /\ cons' = [cons EXCEPT !.pc = "done"]
    /\ ConsFrame

NextCons == RetrieveEs \/ RetrieveChroma \/ RetrievalDone

SpecCons == InitCons /\ [][NextCons]_vars

\* C21: the run never holds more evidence records than it has queries, and
\* the query list of every record is in ascending order without repetition.
C21_RecordsBoundedQueriesSorted ==
    /\ Len(cons.records) <= Len(cons.security_queries)
    /\ \A k \in 1..Len(cons.records) :
          \A a, b \in 1..Len(cons.records[k].queries) :
             a < b => cons.records[k].queries[a] < cons.records[k].queries[b]

\* the queries gone through whose retriever call returned a document
Served ==
    { cons.security_queries[n] : n \in 1..cons.i }
       \ { q \in Queries : cons.retrieve[q] \in {"raise", "none"} }

\* C22: no two records hold the same content, and every query gone through
\* that got a document is in the query list of the record of that document
\* and of no other record.
C22_MergedByContent ==
    cons.pc \in {"loop", "done"} =>
        /\ \A k, m \in 1..Len(cons.records) :
              cons.records[k].content = cons.records[m].content => k = m
        /\ \A q \in Served :
              \A k \in 1..Len(cons.records) :
                 (\E a \in 1..Len(cons.records[k].queries) :
                     cons.records[k].queries[a] = q)
                 <=> cons.records[k].content = cons.retrieve[q]

\* the queries of qs whose retriever call returns a document, in order
RECURSIVE Answered(_, _)
Answered(qs, retrieve) ==
    IF qs = <<>> THEN <<>>
    ELSE IF retrieve[Head(qs)] \in {"raise", "none"}
    THEN Answered(Tail(qs), retrieve)
    ELSE <<Head(qs)>> \o Answered(Tail(qs), retrieve)

\* the records the loop of the given kind builds from the queries qs
RECURSIVE RecordsOf(_, _, _, _)
RecordsOf(impl, qs, retrieve, records) ==
    IF qs = <<>> THEN records
    ELSE RecordsOf(impl, Tail(qs), retrieve,
                   IF impl = "es"
                   THEN EsStep(records, Head(qs), retrieve[Head(qs)])
                   ELSE ChromaStep(records, Head(qs), retrieve[Head(qs)]))

\* C23: a query whose retriever call raises or returns nothing does not end
\* the run, and the records at the end are those the run builds from the
\* other queries alone.
C23_FailingQuerySkipped ==
    /\ cons.pc # "aborted"
    /\ cons.pc = "done" =>
          cons.records =
              RecordsOf(cons.impl,
                        Answered(cons.security_queries, cons.retrieve),
                        cons.retrieve, <<>>)

====
